---- MODULE Spec2Model ----
(***************************************************************************)
(* Recommendation engine of the delivery-marketplace backend:              *)
(*   app/recommender/hybrid_recommender.py      HybridRecommender          *)
(*   app/recommender/collaborative_filtering.py CollaborativeFiltering     *)
(*   app/recommender/content_based.py           ContentBasedRecommender    *)
(*   app/recommender/vector_store.py            VectorStore                *)
(* and the login of app/routers/auth_router.py.                            *)
(* Each class is a group of variables; each method is an action (or, where *)
(* the claim is about interleavings, one action per attribute access).     *)
(* Python's None is the record None; a raised exception is recorded by its *)
(* class name in the status of the call ("-": no call has ended).          *)
(***************************************************************************)
EXTENDS Integers, Sequences, FiniteSets, TLC

VARIABLES
    focus,
    user_item_matrix, user_similarity, item_similarity, item_features,
    fit_pc, fit_arg, fit_calls, fit_log, fit_raised, overlapped,
    rec_pc, rec_user, rec_obs, rec_status, rec_unfitted,
    cf_n_factors, cf_user_ids, cf_item_ids, cf_user_factors, cf_item_factors,
    cf_fitted, cf_call,
    rk_cf, rk_cb, rk_n, rk_context, rk_hour, rk_merged, rk_unique, rk_out, rk_done,
    vs_dimension, vs_index, vs_item_ids, vs_item_vectors, vs_item_metadata,
    vs_is_trained, fs_pkl, fs_index, vs_saved, vs_call,
    cb_item_ids, cb_item_features, cb_feature_names, cb_fitted, cb_call,
    au_users, au_call,
    co_matrix, co_user, co_similar, co_recs, co_done,
    os_stock, os_orders, os_cart, os_req, os_last, os_updates,
    ak_key, ak_now, ak_req, ak_businesses, ak_last,
    ws_socket, active_connections, delivery_locations, order_connections, ws_assigning, ws_last

vars == <<focus,
          user_item_matrix, user_similarity, item_similarity, item_features,
          fit_pc, fit_arg, fit_calls, fit_log, fit_raised, overlapped,
          rec_pc, rec_user, rec_obs, rec_status, rec_unfitted,
          cf_n_factors, cf_user_ids, cf_item_ids, cf_user_factors, cf_item_factors,
          cf_fitted, cf_call,
          rk_cf, rk_cb, rk_n, rk_context, rk_hour, rk_merged, rk_unique, rk_out, rk_done,
          vs_dimension, vs_index, vs_item_ids, vs_item_vectors, vs_item_metadata,
          vs_is_trained, fs_pkl, fs_index, vs_saved, vs_call,
          cb_item_ids, cb_item_features, cb_feature_names, cb_fitted, cb_call,
          au_users, au_call,
          co_matrix, co_user, co_similar, co_recs, co_done,
          os_stock, os_orders, os_cart, os_req, os_last, os_updates,
          ak_key, ak_now, ak_req, ak_businesses, ak_last,
          ws_socket, active_connections, delivery_locations, order_connections, ws_assigning, ws_last>>

rkVars == <<rk_cf, rk_cb, rk_n, rk_context, rk_hour, rk_merged, rk_unique, rk_out, rk_done>>

cfModel == <<cf_n_factors, cf_user_ids, cf_item_ids, cf_user_factors, cf_item_factors>>
cfVars == <<cfModel, cf_fitted, cf_call>>

vsStore == <<vs_dimension, vs_index, vs_item_ids, vs_item_vectors, vs_item_metadata,
             vs_is_trained>>
vsFiles == <<fs_pkl, fs_index, vs_saved>>
vsVars == <<vsStore, vsFiles, vs_call>>

cbModel == <<cb_item_ids, cb_item_features, cb_feature_names>>
cbVars == <<cbModel, cb_fitted, cb_call>>

auVars == <<au_users, au_call>>

coVars == <<co_matrix, co_user, co_similar, co_recs, co_done>>

osVars == <<os_stock, os_orders, os_cart, os_req, os_last, os_updates>>

akVars == <<ak_key, ak_now, ak_req, ak_businesses, ak_last>>

wsVars == <<ws_socket, active_connections, delivery_locations, order_connections, ws_assigning, ws_last>>

\* Python's None, for the attributes that otherwise hold a structure.
None == [none |-> TRUE]

\* An attribute that holds a list or an array: Some(x), or None.
Some(x) == [some |-> x]

(***************************************************************************)
(* Generic helpers.                                                        *)
(***************************************************************************)
Range(s) == {s[i] : i \in 1..Len(s)}

Take(s, n) == IF n <= 0 THEN <<>> ELSE SubSeq(s, 1, IF n < Len(s) THEN n ELSE Len(s))

\* The injective maps of 1..n onto itself, as index arrays.
Perms(n) == {p \in [1..n -> 1..n] : \A i, j \in 1..n : p[i] = p[j] => i = j}

\* array[::-1]
Reverse(s) == [i \in 1..Len(s) |-> s[Len(s) + 1 - i]]

\* np.argsort(keys): an index array that puts the integer keys in ascending
\* order. The default sort is not stable, so equal keys come in any order.
ArgSorts(keys) ==
    {p \in Perms(Len(keys)) : \A i \in 1..(Len(keys) - 1) : keys[p[i]] <= keys[p[i + 1]]}

RECURSIVE SumTo(_, _)
SumTo(f, n) == IF n = 0 THEN 0 ELSE f[n] + SumTo(f, n - 1)

\* np.dot of two vectors of one length
Dot(a, b) == SumTo([j \in 1..Len(a) |-> a[j] * b[j]], Len(a))

\* A cosine is kept exactly, as num / sqrt(den) with den > 0.
\* sklearn's cosine_similarity gives 0 against a zero vector.
Cosine(a, b) ==
    IF Dot(a, a) * Dot(b, b) = 0 THEN [num |-> 0, den |-> 1]
    ELSE [num |-> Dot(a, b), den |-> Dot(a, a) * Dot(b, b)]

SignedSquare(x) == IF x >= 0 THEN x * x ELSE 0 - x * x

\* x <= y for two cosines
CosLeq(x, y) == SignedSquare(x.num) * y.den <= SignedSquare(y.num) * x.den

\* np.argsort over an array of cosines
ArgSortsCos(keys) ==
    {p \in Perms(Len(keys)) : \A i \in 1..(Len(keys) - 1) : CosLeq(keys[p[i]], keys[p[i + 1]])}

\* array[1:n+1], n >= 0
Slice1(s, n) == IF Len(s) < 2 \/ n < 1 THEN <<>> ELSE SubSeq(s, 2, IF n + 1 < Len(s) THEN n + 1 ELSE Len(s))

\* Position of x in s (list.index); 0 when absent.
IndexOf(s, x) == IF x \in Range(s) THEN CHOOSE i \in 1..Len(s) : s[i] = x /\ \A j \in 1..(i-1) : s[j] # x ELSE 0

(***************************************************************************)
(* HybridRecommender                                                       *)
(***************************************************************************)
\* Universe of ids, in the order pandas sorts a pivot's index / columns.
AllUsers == <<"u1", "u2", "u3">>
AllItems == <<"i1", "i2", "i3">>

\* The interaction snapshots offered to fit: a rating per (user, item) row.
\* InterEmpty is a snapshot with no rows.
InterA == [rows |-> {<<"u1", "i1">>, <<"u2", "i1">>, <<"u2", "i2">>},
           rating |-> [p \in {<<"u1", "i1">>, <<"u2", "i1">>, <<"u2", "i2">>} |->
                          IF p = <<"u2", "i2">> THEN 4 ELSE 5]]
InterB == [rows |-> {<<"u1", "i2">>, <<"u2", "i3">>, <<"u3", "i1">>, <<"u3", "i3">>},
           rating |-> [p \in {<<"u1", "i2">>, <<"u2", "i3">>, <<"u3", "i1">>, <<"u3", "i3">>} |->
                          IF p = <<"u3", "i1">> THEN 2 ELSE 4]]
InterEmpty == [rows |-> {}, rating |-> <<>>]
Interactions == {InterA, InterB, InterEmpty}

\* The catalogs offered to fit: item id -> feature document (a set of terms).
\* CatalogEmpty has no documents, so TfidfVectorizer finds an empty vocabulary.
CatalogA == [i \in {"i1", "i2"} |-> IF i = "i1" THEN {"pizza", "cheese"} ELSE {"pizza", "veg"}]
CatalogEmpty == <<>>
CatalogB == [i \in {"i1", "i2", "i3"} |-> IF i = "i2" THEN {"soup"} ELSE {"soup", "veg"}]
Catalogs == {CatalogA, CatalogB, CatalogEmpty}

\* interactions.pivot_table(index='user_id', columns='item_id', values='rating', fill_value=0)
BuildUserItemMatrix(inter) ==
    LET us == {p[1] : p \in inter.rows}
        is == {p[2] : p \in inter.rows}
    IN  [index |-> SelectSeq(AllUsers, LAMBDA u : u \in us),
         columns |-> SelectSeq(AllItems, LAMBDA i : i \in is),
         val |-> [u \in us, i \in is |-> IF <<u, i>> \in inter.rows THEN inter.rating[<<u, i>>] ELSE 0]]

\* cosine_similarity raises ValueError on an array with 0 samples.
CosineRaises(m) == Len(m.index) = 0 \/ Len(m.columns) = 0

\* cosine_similarity(self.user_item_matrix): the n_users x n_users matrix of the
\* row cosines of m, kept as the matrix it was computed from.
UserCosine(m) == [axis |-> "user", of |-> m, n |-> Len(m.index)]

\* cosine_similarity(self.user_item_matrix.T)
ItemCosine(m) == [axis |-> "item", of |-> m, n |-> Len(m.columns)]

\* TfidfVectorizer(...).fit_transform raises ValueError ("empty vocabulary")
\* when no document holds a term.
TfidfRaises(items) == \A i \in DOMAIN items : items[i] = {}

\* vectorizer.fit_transform(items['features']): one row per item, nonzero on its terms.
ExtractItemFeatures(items) == [tfidf_of |-> items, n |-> Cardinality(DOMAIN items)]

FitThreads == {"f1", "f2"}

\* The (interactions, items) pairs a caller passes to fit.
FitInputs == {[inter |-> InterA, items |-> CatalogA],
              [inter |-> InterB, items |-> CatalogB],
              [inter |-> InterEmpty, items |-> CatalogA],
              [inter |-> InterA, items |-> CatalogEmpty]}

\* Calls of fit in one run.
MaxFitCalls == 2

\* The user ids a caller passes to recommend; "u9" is in no snapshot.
RecUsers == {"u1", "u3", "u9"}

\* What one recommend call has read so far: the matrices it saw and the
\* similarity matrices it saw.
NoObs == [ms |-> {}, usim |-> None, isim |-> None, cf_guard |-> FALSE, cb_guard |-> FALSE]

\* HybridRecommender.__init__
InitHybrid ==
    /\ user_item_matrix = None
    /\ item_features = None
    /\ user_similarity = None
    /\ item_similarity = None
    /\ fit_pc = [t \in FitThreads |-> "idle"]
    /\ fit_arg = [t \in FitThreads |-> None]
    /\ fit_calls = 0
    /\ fit_log = {}
    /\ fit_raised = FALSE
    /\ overlapped = FALSE
    /\ rec_pc = "idle"
    /\ rec_user = "-"
    /\ rec_obs = NoObs
    /\ rec_status = "-"
    /\ rec_unfitted = FALSE

hybridModel == <<user_item_matrix, user_similarity, item_similarity, item_features>>
hybridFit == <<fit_pc, fit_arg, fit_calls, fit_log, fit_raised, overlapped>>
hybridRec == <<rec_pc, rec_user, rec_obs, rec_status, rec_unfitted>>
hybridVars == <<hybridModel, hybridFit, hybridRec>>

\* The other classes' instances.
notHybrid == <<focus, cfVars, rkVars, vsVars, cbVars, auVars, coVars, osVars, akVars, wsVars>>

\* A thread enters fit. Nothing in fit or in its callers takes a lock, so the
\* call is enabled whatever the other threads are doing.
FitCall(t, a) ==
    /\ fit_pc[t] = "idle"
    /\ fit_calls < MaxFitCalls
    /\ fit_pc' = [fit_pc EXCEPT ![t] = "build"]
    /\ fit_arg' = [fit_arg EXCEPT ![t] = a]
    /\ fit_calls' = fit_calls + 1
    /\ overlapped' = (overlapped \/ \E o \in FitThreads \ {t} : fit_pc[o] # "idle")
    /\ UNCHANGED <<hybridModel, fit_log, fit_raised, hybridRec>>
    /\ UNCHANGED notHybrid

\* fit, line 23: self._build_user_item_matrix(interactions)
FitBuildMatrix(t) ==
    /\ fit_pc[t] = "build"
    /\ user_item_matrix' = BuildUserItemMatrix(fit_arg[t].inter)
    /\ fit_pc' = [fit_pc EXCEPT ![t] = "sim_user"]
    /\ UNCHANGED <<user_similarity, item_similarity, item_features,
                   fit_arg, fit_calls, fit_log, fit_raised, overlapped, hybridRec>>
    /\ UNCHANGED notHybrid

\* The exception leaves fit: the thread is idle again, nothing is rolled back.
FitRaise(t) ==
    /\ fit_pc' = [fit_pc EXCEPT ![t] = "idle"]
    /\ fit_arg' = [fit_arg EXCEPT ![t] = None]
    /\ fit_raised' = TRUE
    /\ UNCHANGED <<fit_calls, fit_log, overlapped>>

\* _calculate_similarities, line 41: reads self.user_item_matrix as it is now.
FitUserSimilarity(t) ==
    /\ fit_pc[t] = "sim_user"
    /\ IF CosineRaises(user_item_matrix)
       THEN FitRaise(t) /\ UNCHANGED user_similarity
       ELSE /\ user_similarity' = UserCosine(user_item_matrix)
            /\ fit_pc' = [fit_pc EXCEPT ![t] = "sim_item"]
            /\ UNCHANGED <<fit_arg, fit_calls, fit_log, fit_raised, overlapped>>
    /\ UNCHANGED <<user_item_matrix, item_similarity, item_features, hybridRec>>
    /\ UNCHANGED notHybrid

\* _calculate_similarities, line 42
FitItemSimilarity(t) ==
    /\ fit_pc[t] = "sim_item"
    /\ IF CosineRaises(user_item_matrix)
       THEN FitRaise(t) /\ UNCHANGED item_similarity
       ELSE /\ item_similarity' = ItemCosine(user_item_matrix)
            /\ fit_pc' = [fit_pc EXCEPT ![t] = "features"]
            /\ UNCHANGED <<fit_arg, fit_calls, fit_log, fit_raised, overlapped>>
    /\ UNCHANGED <<user_item_matrix, user_similarity, item_features, hybridRec>>
    /\ UNCHANGED notHybrid

\* fit, line 27: self._extract_item_features(items); then fit returns.
FitItemFeatures(t) ==
    /\ fit_pc[t] = "features"
    /\ IF TfidfRaises(fit_arg[t].items)
       THEN FitRaise(t) /\ UNCHANGED item_features
       ELSE /\ item_features' = ExtractItemFeatures(fit_arg[t].items)
            /\ fit_pc' = [fit_pc EXCEPT ![t] = "idle"]
            /\ fit_log' = fit_log \cup {fit_arg[t]}
            /\ fit_arg' = [fit_arg EXCEPT ![t] = None]
            /\ UNCHANGED <<fit_calls, fit_raised, overlapped>>
    /\ UNCHANGED <<user_item_matrix, user_similarity, item_similarity, hybridRec>>
    /\ UNCHANGED notHybrid

\* A caller enters recommend(user_id, ...). No check of the fitted state is made.
RecCall(u) ==
    /\ rec_pc \in {"idle", "done"}
    /\ rec_pc' = "cf_index"
    /\ rec_user' = u
    /\ rec_obs' = NoObs
    /\ rec_status' = "-"
    /\ rec_unfitted' = (fit_log = {})
    /\ UNCHANGED <<hybridModel, hybridFit>>
    /\ UNCHANGED notHybrid

\* The call ends by raising exc.
RecRaise(exc) ==
    /\ rec_pc' = "done"
    /\ rec_status' = exc

\* _collaborative_filtering, lines 102-103: user_id in self.user_item_matrix.index
RecCFIndex ==
    /\ rec_pc = "cf_index"
    /\ IF user_item_matrix = None
       THEN RecRaise("AttributeError") /\ UNCHANGED rec_obs
       ELSE /\ rec_obs' = [rec_obs EXCEPT !.ms = @ \cup {user_item_matrix},
                                          !.cf_guard = rec_user \in Range(user_item_matrix.index)]
            /\ rec_pc' = IF rec_user \in Range(user_item_matrix.index) THEN "cf_similar" ELSE "cb_liked"
            /\ UNCHANGED rec_status
    /\ UNCHANGED <<hybridModel, hybridFit, rec_user, rec_unfitted>>
    /\ UNCHANGED notHybrid

\* The matrix the call saw at line 102.
SeenMatrix == CHOOSE m \in rec_obs.ms : TRUE

\* _collaborative_filtering, line 104: np.argsort(self.user_similarity[user_idx])[::-1][1:6]
RecCFSimilar ==
    /\ rec_pc = "cf_similar"
    /\ LET user_idx == IndexOf(SeenMatrix.index, rec_user)
       IN  IF user_similarity = None
           THEN RecRaise("TypeError") /\ UNCHANGED rec_obs
           ELSE /\ rec_obs' = [rec_obs EXCEPT !.usim = user_similarity]
                /\ IF user_idx > user_similarity.n
                   THEN RecRaise("IndexError")
                   ELSE rec_pc' = "cf_rows" /\ UNCHANGED rec_status
    /\ UNCHANGED <<hybridModel, hybridFit, rec_user, rec_unfitted>>
    /\ UNCHANGED notHybrid

\* The exceptions lines 107-118 can end with, for the rows sim_idx taken from the
\* similarity matrix seen at line 104, against the matrix m and the similarity
\* matrix s as they are now: index[j] out of range, .loc[user_id] of an absent
\* user, s[user_idx, j] out of range.
CFRowErrors(m, s, sim_idx, user, user_idx) ==
    {"IndexError" : j \in {j \in sim_idx : j > Len(m.index) \/ j > s.n \/ user_idx > s.n}}
    \cup {"KeyError" : j \in {j \in sim_idx : user \notin Range(m.index)}}

\* _collaborative_filtering, lines 106-121: the loop over the similar users.
RecCFRows ==
    /\ rec_pc = "cf_rows"
    /\ LET user_idx == IndexOf(SeenMatrix.index, rec_user)
           sim_idx == (1..rec_obs.usim.n) \ {user_idx}
           errs == CFRowErrors(user_item_matrix, user_similarity, sim_idx, rec_user, user_idx)
       IN  /\ rec_obs' = IF sim_idx = {} THEN rec_obs
                         ELSE [rec_obs EXCEPT !.ms = @ \cup {user_item_matrix}]
           /\ IF errs # {}
              THEN \E e \in errs : RecRaise(e)
              ELSE rec_pc' = "cb_liked" /\ UNCHANGED rec_status
    /\ UNCHANGED <<hybridModel, hybridFit, rec_user, rec_unfitted>>
    /\ UNCHANGED notHybrid

\* user_items[user_items > 3].index.tolist()[:3]
LikedItems(m, user) ==
    Take(SelectSeq(m.columns, LAMBDA i : m.val[user, i] > 3), 3)

\* _content_based_filtering, lines 135-141
RecCBLiked ==
    /\ rec_pc = "cb_liked"
    /\ rec_obs' = [rec_obs EXCEPT !.ms = @ \cup {user_item_matrix},
                                  !.cb_guard = rec_user \in Range(user_item_matrix.index)]
    /\ rec_pc' = IF /\ rec_user \in Range(user_item_matrix.index)
                    /\ LikedItems(user_item_matrix, rec_user) # <<>>
                 THEN "cb_similar" ELSE "merge"
    /\ UNCHANGED <<hybridModel, hybridFit, rec_user, rec_status, rec_unfitted>>
    /\ UNCHANGED notHybrid

\* The matrix the call saw last.
LikedOf(ms, user) ==
    UNION {Range(LikedItems(m, user)) : m \in {m \in ms : user \in Range(m.index)}}

\* _find_similar_items, lines 156-169, for each liked item: the item's row of
\* self.item_similarity, and the columns of self.user_item_matrix it names.
RecCBSimilar ==
    /\ rec_pc = "cb_similar"
    /\ LET m == user_item_matrix
           liked == {i \in LikedOf(rec_obs.ms, rec_user) : i \in Range(m.columns)}
       IN  IF liked = {}
           THEN rec_pc' = "merge" /\ UNCHANGED <<rec_status, rec_obs>>
           ELSE IF item_similarity = None
           THEN RecRaise("TypeError") /\ UNCHANGED rec_obs
           ELSE /\ rec_obs' = [rec_obs EXCEPT !.ms = @ \cup {m}, !.isim = item_similarity]
                /\ IF \/ \E i \in liked : IndexOf(m.columns, i) > item_similarity.n
                      \/ item_similarity.n > Len(m.columns)
                   THEN RecRaise("IndexError")
                   ELSE rec_pc' = "merge" /\ UNCHANGED rec_status
    /\ UNCHANGED <<hybridModel, hybridFit, rec_user, rec_unfitted>>
    /\ UNCHANGED notHybrid

\* recommend, lines 80-92: popularity and context candidates, deduplication,
\* ranking and truncation read no attribute of the instance; the list is returned.
RecMerge ==
    /\ rec_pc = "merge"
    /\ rec_pc' = "done"
    /\ rec_status' = "ok"
    /\ UNCHANGED <<hybridModel, hybridFit, rec_user, rec_obs, rec_unfitted>>
    /\ UNCHANGED notHybrid

NextHybrid ==
    \/ \E t \in FitThreads, a \in FitInputs : FitCall(t, a)
    \/ \E t \in FitThreads : FitBuildMatrix(t)
    \/ \E t \in FitThreads : FitUserSimilarity(t)
    \/ \E t \in FitThreads : FitItemSimilarity(t)
    \/ \E t \in FitThreads : FitItemFeatures(t)
    \/ \E u \in RecUsers : RecCall(u)
    \/ RecCFIndex
    \/ RecCFSimilar
    \/ RecCFRows
    \/ RecCBLiked
    \/ RecCBSimilar
    \/ RecMerge

(***************************************************************************)
(* CollaborativeFiltering                                                  *)
(***************************************************************************)
\* n_factors values a caller constructs the model with: 1..MaxFactors.
MaxFactors == 2

\* The index (user ids) and columns (item ids) of the matrices passed to fit.
CFUserLists == {<<>>, <<"u1">>, <<"u1", "u2">>}
CFItemLists == {<<"i1">>, <<"i1", "i2">>, <<"i1", "i2", "i3">>}

\* The ids queries are made with; "u9" and "i9" are in no matrix.
CFQueryUsers == {"u1", "u2", "u9"}
CFQueryItems == {"i1", "i3", "i9"}

\* Largest n_recommendations / n_users / n_items a query passes.
MaxN == 2

\* exclude_items arguments (None is the empty list: "exclude_items or []").
CFExcludes == {{}, {"i1"}, {"i2", "i3"}}

\* Entries of the factor arrays TruncatedSVD returns, as integers.
FactorVals == {-1, 3}

\* A factor row of width k: the first component varies, the others are 1.
FactorRows(k) == {[j \in 1..k |-> IF j = 1 THEN a ELSE 1] : a \in FactorVals}

\* The arrays of the given shape TruncatedSVD may return.
FactorArrays(rows, k) == [1..rows -> FactorRows(k)]

\* TruncatedSVD.fit_transform rejects an array with no sample or fewer than two
\* features, and n_components above the number of features.
SvdRaises(n_users, n_items, k) == n_users = 0 \/ n_items < 2 \/ k > n_items

NoCall == [op |-> "-"]

\* CollaborativeFiltering.__init__
InitCF ==
    /\ cf_n_factors \in 1..MaxFactors
    /\ cf_user_factors = None
    /\ cf_item_factors = None
    /\ cf_user_ids = None
    /\ cf_item_ids = None
    /\ cf_fitted = FALSE
    /\ cf_call = NoCall

\* The other classes' instances.
notCF == <<focus, hybridVars, rkVars, vsVars, cbVars, auVars, coVars, osVars, akVars, wsVars>>

\* fit(user_item_matrix): the id lists are stored first (lines 24-25), then the
\* factorization runs (lines 31-32); when it raises, fit is left at line 31.
\* A call that raised records what the instance held when it was made.
CFFit(users, items) ==
    /\ cf_call = NoCall
    /\ cf_user_ids' = Some(users)
    /\ cf_item_ids' = Some(items)
    /\ IF SvdRaises(Len(users), Len(items), cf_n_factors)
       THEN /\ UNCHANGED <<cf_user_factors, cf_item_factors>>
            /\ cf_fitted' = FALSE
            /\ cf_call' = [op |-> "fit", status |-> "ValueError",
                           before |-> <<cf_user_ids, cf_item_ids, cf_user_factors, cf_item_factors>>]
       ELSE /\ \E uf \in FactorArrays(Len(users), cf_n_factors),
                  if \in FactorArrays(Len(items), cf_n_factors) :
                    /\ cf_user_factors' = Some(uf)
                    /\ cf_item_factors' = Some(if)
            /\ cf_fitted' = TRUE
            /\ cf_call' = [op |-> "fit", status |-> "ok"]
    /\ UNCHANGED <<cf_n_factors, notCF>>

\* The caller takes the result of the call; the next call can be made.
CFReturn ==
    /\ cf_call # NoCall
    /\ cf_call' = NoCall
    /\ UNCHANGED <<cfModel, cf_fitted, notCF>>

\* The exception a lookup of row idx in a stored array ends with, "" if none.
RowError(arr, idx) ==
    IF arr = None THEN "TypeError"
    ELSE IF idx > Len(arr.some) THEN "IndexError" ELSE ""

\* The loop of recommend_for_user with the test of exclude_set left out.
RECURSIVE RecommendLoopNoExclude(_, _, _, _, _, _, _)
RecommendLoopNoExclude(order, i, recs, n, exclude, item_ids, item_scores) ==
    IF i > Len(order) \/ Len(recs) >= n THEN [status |-> "ok", result |-> recs]
    ELSE IF order[i] > Len(item_ids) THEN [status |-> "IndexError"]
    ELSE RecommendLoopNoExclude(order, i + 1,
                                Append(recs, [item_id |-> item_ids[order[i]], score |-> item_scores[order[i]]]),
                                n, exclude, item_ids, item_scores)

\* recommend_for_user, lines 59-69: the loop over sorted_indices from position
\* i. self.item_ids[idx] raises IndexError past the end of the id list.
RECURSIVE RecommendLoop(_, _, _, _, _, _, _)
RecommendLoop(order, i, recs, n, exclude, item_ids, item_scores) ==
    IF i > Len(order) \/ Len(recs) >= n THEN [status |-> "ok", result |-> recs]
    ELSE IF order[i] > Len(item_ids) THEN [status |-> "IndexError"]
    ELSE LET idx == order[i]
             item_id == item_ids[idx]
         IN  IF item_id \notin exclude
             THEN RecommendLoop(order, i + 1,
                                Append(recs, [item_id |-> item_id, score |-> item_scores[idx]]),
                                n, exclude, item_ids, item_scores)
             ELSE RecommendLoop(order, i + 1, recs, n, exclude, item_ids, item_scores)

\* recommend_for_user(user_id, n_recommendations, exclude_items)
CFRecommendForUser(user_id, n, exclude) ==
    /\ cf_call = NoCall
    /\ LET call == [op |-> "recommend_for_user", user_id |-> user_id, n |-> n, exclude |-> exclude]
       IN  IF cf_user_ids = None
           THEN cf_call' = call @@ [status |-> "TypeError"]
           ELSE IF user_id \notin Range(cf_user_ids.some)
           THEN cf_call' = call @@ [status |-> "ok", result |-> <<>>]
           ELSE LET user_idx == IndexOf(cf_user_ids.some, user_id)
                IN  IF RowError(cf_user_factors, user_idx) # ""
                    THEN cf_call' = call @@ [status |-> RowError(cf_user_factors, user_idx)]
                    ELSE LET user_vector == cf_user_factors.some[user_idx]
                             item_scores == [i \in 1..Len(cf_item_factors.some) |->
                                                Dot(cf_item_factors.some[i], user_vector)]
                         IN  \E asc \in ArgSorts(item_scores) :
                                cf_call' = call @@ RecommendLoop(Reverse(asc), 1, <<>>, n, exclude,
                                                                 cf_item_ids.some, item_scores)
    /\ UNCHANGED <<cfModel, cf_fitted, notCF>>

\* The clamp with the upper limit left out: max(1.0, prediction).
ClampNoUpper(prediction) == IF prediction > 1 THEN prediction ELSE 1

\* max(1.0, min(5.0, prediction))
Clamp(prediction) ==
    LET lo == IF 5 < prediction THEN 5 ELSE prediction
    IN  IF lo > 1 THEN lo ELSE 1

\* predict_rating(user_id, item_id)
CFPredictRating(user_id, item_id) ==
    /\ cf_call = NoCall
    /\ LET call == [op |-> "predict_rating", user_id |-> user_id, item_id |-> item_id]
       IN  IF cf_user_ids = None
           THEN cf_call' = call @@ [status |-> "TypeError"]
           ELSE IF user_id \notin Range(cf_user_ids.some) \/ item_id \notin Range(cf_item_ids.some)
           THEN cf_call' = call @@ [status |-> "ok", result |-> None]
           ELSE LET user_idx == IndexOf(cf_user_ids.some, user_id)
                    item_idx == IndexOf(cf_item_ids.some, item_id)
                IN  IF RowError(cf_user_factors, user_idx) # ""
                    THEN cf_call' = call @@ [status |-> RowError(cf_user_factors, user_idx)]
                    ELSE IF RowError(cf_item_factors, item_idx) # ""
                    THEN cf_call' = call @@ [status |-> RowError(cf_item_factors, item_idx)]
                    ELSE cf_call' = call @@
                           [status |-> "ok",
                            result |-> Some(Clamp(Dot(cf_user_factors.some[user_idx],
                                                      cf_item_factors.some[item_idx])))]
    /\ UNCHANGED <<cfModel, cf_fitted, notCF>>

\* get_similar_users / get_similar_items, lines 91-96 and 118-123: one entry per
\* index, ids[idx] raising IndexError past the end of the id list.
SimilarEntries(indices, ids, similarities) ==
    IF \E i \in 1..Len(indices) : indices[i] > Len(ids) THEN [status |-> "IndexError"]
    ELSE [status |-> "ok",
          result |-> [i \in 1..Len(indices) |->
                         [id |-> ids[indices[i]], similarity |-> similarities[indices[i]]]]]

\* get_similar_users(user_id, n_users)
CFGetSimilarUsers(user_id, n) ==
    /\ cf_call = NoCall
    /\ LET call == [op |-> "get_similar_users", id |-> user_id, n |-> n]
       IN  IF cf_user_ids = None
           THEN cf_call' = call @@ [status |-> "TypeError"]
           ELSE IF user_id \notin Range(cf_user_ids.some)
           THEN cf_call' = call @@ [status |-> "ok", result |-> <<>>]
           ELSE LET user_idx == IndexOf(cf_user_ids.some, user_id)
                IN  IF RowError(cf_user_factors, user_idx) # ""
                    THEN cf_call' = call @@ [status |-> RowError(cf_user_factors, user_idx)]
                    ELSE LET user_vector == cf_user_factors.some[user_idx]
                             similarities == [j \in 1..Len(cf_user_factors.some) |->
                                                 Cosine(user_vector, cf_user_factors.some[j])]
                         IN  \E asc \in ArgSortsCos(similarities) :
                                cf_call' = call @@ SimilarEntries(Slice1(Reverse(asc), n),
                                                                  cf_user_ids.some, similarities)
    /\ UNCHANGED <<cfModel, cf_fitted, notCF>>

\* self.item_factors.T: row j holds component j of every item's factor row.
Transpose(arr, k) == [j \in 1..k |-> [i \in 1..Len(arr) |-> arr[i][j]]]

\* get_similar_items(item_id, n_items). cosine_similarity([item_vector],
\* self.item_factors.T) compares a vector of n_factors entries with rows of
\* n_items entries and raises ValueError unless the two widths agree.
CFGetSimilarItems(item_id, n) ==
    /\ cf_call = NoCall
    /\ LET call == [op |-> "get_similar_items", id |-> item_id, n |-> n]
       IN  IF cf_item_ids = None
           THEN cf_call' = call @@ [status |-> "TypeError"]
           ELSE IF item_id \notin Range(cf_item_ids.some)
           THEN cf_call' = call @@ [status |-> "ok", result |-> <<>>]
           ELSE LET item_idx == IndexOf(cf_item_ids.some, item_id)
                IN  IF RowError(cf_item_factors, item_idx) # ""
                    THEN cf_call' = call @@ [status |-> RowError(cf_item_factors, item_idx)]
                    ELSE IF Len(cf_item_factors.some) # cf_n_factors
                    THEN cf_call' = call @@ [status |-> "ValueError"]
                    ELSE LET item_vector == cf_item_factors.some[item_idx]
                             rows == Transpose(cf_item_factors.some, cf_n_factors)
                             similarities == [j \in 1..cf_n_factors |-> Cosine(item_vector, rows[j])]
                         IN  \E asc \in ArgSortsCos(similarities) :
                                cf_call' = call @@ SimilarEntries(Slice1(Reverse(asc), n),
                                                                  cf_item_ids.some, similarities)
    /\ UNCHANGED <<cfModel, cf_fitted, notCF>>

NextCF ==
    \/ \E users \in CFUserLists, items \in CFItemLists : CFFit(users, items)
    \/ CFReturn
    \/ \E u \in CFQueryUsers, n \in 0..MaxN, ex \in CFExcludes : CFRecommendForUser(u, n, ex)
    \/ \E u \in CFQueryUsers, i \in CFQueryItems : CFPredictRating(u, i)
    \/ \E u \in CFQueryUsers, n \in 0..MaxN : CFGetSimilarUsers(u, n)
    \/ \E i \in CFQueryItems, n \in 0..MaxN : CFGetSimilarItems(i, n)

(***************************************************************************)
(* HybridRecommender.recommend, lines 70-92: the four candidate streams,   *)
(* their merge and the ranking, run on its own. The collaborative and the  *)
(* content stream are any lists of candidates; the popularity and the      *)
(* context stream are computed as the code computes them. A score is an    *)
(* integer number of tenths (0.9 is 9).                                    *)
(***************************************************************************)
\* Candidates of the collaborative and the content stream together, at most.
MaxCand == 3

\* Largest n_recommendations.
MaxRankN == 3

\* Item ids and scores of the collaborative and the content candidates.
RankItems == {"item_0", "hot_soup"}
RankScores == {4, 9}

\* f'item_{i}'
ItemName == <<"item_0", "item_1", "item_2", "item_3", "item_4", "item_5">>

\* The context argument (None, or a dict with or without a weather tag) and
\* datetime.now().hour at the call.
RankEnvs == {<<None, 8>>, <<[weather |-> "rainy"], 8>>, <<[weather |-> "hot"], 12>>,
             <<[weather |-> "-"], 18>>, <<[weather |-> "rainy"], 23>>}

Candidate(item_id, score, type, source) ==
    [item_id |-> item_id, score |-> score, type |-> type, source |-> source]

StreamLists(type, source, len) ==
    UNION {[1..l -> {Candidate(i, sc, type, source) : i \in RankItems, sc \in RankScores}] : l \in 0..len}

\* _popularity_based: item_i with score 0.9 - i * 0.1 for i in range(n)
PopularityBased(n) ==
    [j \in 1..n |-> Candidate(ItemName[j], 9 - (j - 1), "popularity", "trending")]

\* _context_based_filtering: one candidate for the hour's bucket, one for the weather tag
ContextBasedFiltering(context, current_hour) ==
    (IF 6 <= current_hour /\ current_hour < 11
       THEN <<Candidate("breakfast_special", 8, "context", "time_morning")>>
     ELSE IF 11 <= current_hour /\ current_hour < 16
       THEN <<Candidate("lunch_special", 8, "context", "time_afternoon")>>
     ELSE IF 16 <= current_hour /\ current_hour < 22
       THEN <<Candidate("dinner_special", 8, "context", "time_evening")>>
     ELSE <<>>)
    \o (IF context.weather = "rainy" THEN <<Candidate("hot_soup", 9, "context", "weather_rainy")>>
        ELSE IF context.weather = "hot" THEN <<Candidate("cold_drink", 9, "context", "weather_hot")>>
        ELSE <<>>)

\* _deduplicate_and_rank, lines 253-260, from candidate i on. unique_recs is a
\* dict: an item_id keeps the position of its first candidate.
RECURSIVE DedupLoopKeepLast(_, _, _)
DedupLoopKeepLast(recommendations, i, unique_recs) ==
    IF i > Len(recommendations) THEN unique_recs
    ELSE LET rec == recommendations[i]
             at == {j \in 1..Len(unique_recs) : unique_recs[j].item_id = rec.item_id}
         IN  IF at = {}
             THEN DedupLoopKeepLast(recommendations, i + 1, Append(unique_recs, rec))
             ELSE DedupLoopKeepLast(recommendations, i + 1,
                                    [unique_recs EXCEPT ![CHOOSE j \in at : TRUE] = rec])

RECURSIVE DedupLoop(_, _, _)
DedupLoop(recommendations, i, unique_recs) ==
    IF i > Len(recommendations) THEN unique_recs
    ELSE LET rec == recommendations[i]
             at == {j \in 1..Len(unique_recs) : unique_recs[j].item_id = rec.item_id}
         IN  IF at = {}
             THEN DedupLoop(recommendations, i + 1, Append(unique_recs, rec))
             ELSE LET j == CHOOSE j \in at : TRUE
                  IN  IF rec.score > unique_recs[j].score
                      THEN DedupLoop(recommendations, i + 1, [unique_recs EXCEPT ![j] = rec])
                      ELSE DedupLoop(recommendations, i + 1, unique_recs)

\* The list left as it is.
SortedByScoreUnsorted(recs) == recs

\* sorted(recs, key=score, reverse=True): stable, so equal scores keep their order.
RECURSIVE SortedByScore(_)
SortedByScore(recs) ==
    IF recs = <<>> THEN <<>>
    ELSE LET rest == SortedByScore(SubSeq(recs, 1, Len(recs) - 1))
             x == recs[Len(recs)]
             before == SelectSeq(rest, LAMBDA r : r.score >= x.score)
             after == SelectSeq(rest, LAMBDA r : r.score < x.score)
         IN  before \o <<x>> \o after

\* _deduplicate_and_rank(recommendations)
DeduplicateAndRank(recommendations) == SortedByScore(DedupLoop(recommendations, 1, <<>>))

InitRank ==
    /\ \E l \in 0..MaxCand :
          /\ rk_cf \in StreamLists("collaborative", "similar_user", l)
          /\ rk_cb \in StreamLists("content", "similar_to", MaxCand - l)
    /\ rk_n \in 0..MaxRankN
    /\ \E e \in RankEnvs : rk_context = e[1] /\ rk_hour = e[2]
    /\ rk_merged = <<>>
    /\ rk_unique = <<>>
    /\ rk_out = <<>>
    /\ rk_done = FALSE

\* The other classes' instances.
notRank == <<focus, hybridVars, cfVars, vsVars, cbVars, auVars, coVars, osVars, akVars, wsVars>>

\* recommend(user_id, business_id, context, n_recommendations), lines 70-92
RankRecommend ==
    /\ ~rk_done
    /\ LET recommendations ==
               rk_cf \o rk_cb \o PopularityBased(rk_n)
               \o (IF rk_context # None THEN ContextBasedFiltering(rk_context, rk_hour) ELSE <<>>)
           unique_recs == DeduplicateAndRank(recommendations)
       IN  /\ rk_merged' = recommendations
           /\ rk_unique' = unique_recs
           /\ rk_out' = Take(unique_recs, rk_n)
    /\ rk_done' = TRUE
    /\ UNCHANGED <<rk_cf, rk_cb, rk_n, rk_context, rk_hour, notRank>>

NextRank == RankRecommend

(***************************************************************************)
(* VectorStore                                                             *)
(***************************************************************************)
\* Vectors have two components, written in fifths: <<3, 4>> is (0.6, 0.8).
\* The dimension a store is constructed with.
VSDims == {2, 3}

\* The query vectors callers pass: one of length 2, one on an axis.
VSVectors == {<<6, 8>>, <<0, 5>>}

\* Ids a store holds and rows an index holds at most (add_items is not offered
\* beyond it).
MaxVSItems == 2

\* add_items(item_ids, vectors, metadata) calls. metadata <<>> stands for both
\* None and []: line 55 tests its truth only.
VSBatches == {[item_ids |-> <<"i1">>, vectors |-> <<<<6, 8>>>>, metadata |-> <<>>],
              [item_ids |-> <<"i1", "i2">>, vectors |-> <<<<3, 4>>, <<0, 5>>>>,
               metadata |-> <<"m1">>]}

\* build_index(vectors) calls.
VSBuilds == {<<<<0, 10>>>>}

VSQueryItems == {"i1", "i9"}
VSKs == {1, 2}
\* filter_func, as the set of item ids it rejects; {} is filter_func=None.
VSFilters == {{}, {"i1"}}

\* The integer square root.
ISqrt(n) == CHOOSE r \in 0..n : r * r <= n /\ (r + 1) * (r + 1) > n

\* faiss.normalize_L2 on one row: the row over its norm; a zero row is left.
NormalizeRow(v) ==
    LET norm == ISqrt(Dot(v, v))
    IN  IF norm = 0 THEN v ELSE [j \in 1..Len(v) |-> (v[j] * 5) \div norm]

\* faiss.normalize_L2(vectors)
NormalizeL2(vectors) == [i \in 1..Len(vectors) |-> NormalizeRow(vectors[i])]

\* faiss.IndexFlatIP(d): the dimension and the rows added so far.
IndexFlatIP(d) == [d |-> d, xb |-> <<>>]

\* index.add(vectors) asserts the rows have the index's dimension.
IndexAddRaises(index, vectors) == \E i \in 1..Len(vectors) : Len(vectors[i]) # index.d

\* dict: a set of <<key, value>> pairs with one pair per key.
DictSet(d, key, value) == {p \in d : p[1] # key} \cup {<<key, value>>}

\* dict.get(key, {}); the empty dict is "{}".
DictGet(d, key) ==
    IF \E p \in d : p[1] = key THEN (CHOOSE p \in d : p[1] = key)[2] ELSE "{}"

\* add_items, lines 55-57
RECURSIVE StoreMetadata(_, _, _, _)
StoreMetadata(d, item_ids, metadata, i) ==
    IF i > Len(item_ids) THEN d
    ELSE StoreMetadata(DictSet(d, item_ids[i], IF i <= Len(metadata) THEN metadata[i] ELSE "{}"),
                       item_ids, metadata, i + 1)

\* VectorStore.__init__
VSFresh(d) ==
    [dimension |-> d, index |-> None, item_ids |-> <<>>, item_vectors |-> <<>>,
     item_metadata |-> {}, is_trained |-> FALSE]

\* The instance's attributes as one record.
VSState ==
    [dimension |-> vs_dimension, index |-> vs_index, item_ids |-> vs_item_ids,
     item_vectors |-> vs_item_vectors, item_metadata |-> vs_item_metadata,
     is_trained |-> vs_is_trained]

\* The instance takes the attribute values of record s.
VSBecomes(s) ==
    /\ vs_dimension' = s.dimension
    /\ vs_index' = s.index
    /\ vs_item_ids' = s.item_ids
    /\ vs_item_vectors' = s.item_vectors
    /\ vs_item_metadata' = s.item_metadata
    /\ vs_is_trained' = s.is_trained

InitVSDim(d) ==
    /\ vs_dimension = d
    /\ vs_index = None
    /\ vs_item_ids = <<>>
    /\ vs_item_vectors = <<>>
    /\ vs_item_metadata = {}
    /\ vs_is_trained = FALSE
    /\ fs_pkl = None
    /\ fs_index = None
    /\ vs_saved = None
    /\ vs_call = NoCall

InitVS == \E d \in VSDims : InitVSDim(d)

\* A store nobody uses.
InitVSIdle == InitVSDim(2)

notVS == <<focus, hybridVars, cfVars, rkVars, cbVars, auVars, coVars, osVars, akVars, wsVars>>

\* A caller constructs another VectorStore(dimension) and goes on with it.
VSNew(d) ==
    /\ vs_call = NoCall
    /\ VSBecomes(VSFresh(d))
    /\ vs_call' = [op |-> "new"]
    /\ UNCHANGED vsFiles
    /\ UNCHANGED notVS

\* Some row of vectors has not the length the store was constructed with.
DimensionMismatch(vectors) == \E i \in 1..Len(vectors) : Len(vectors[i]) # vs_dimension

\* build_index(vectors): the new index is stored (line 29) before add can raise
\* (line 30). A call that raises keeps the attributes it found in "before".
VSBuildIndex(vectors) ==
    /\ vs_call = NoCall
    /\ LET x == NormalizeL2(vectors)
           index == IndexFlatIP(vs_dimension)
       IN  IF IndexAddRaises(index, x)
           THEN /\ vs_index' = Some(index)
                /\ vs_call' = [op |-> "build_index", status |-> "AssertionError",
                               mismatch |-> DimensionMismatch(vectors), before |-> VSState]
                /\ UNCHANGED <<vs_item_vectors, vs_is_trained>>
           ELSE /\ vs_index' = Some([index EXCEPT !.xb = x])
                /\ vs_item_vectors' = x
                /\ vs_is_trained' = TRUE
                /\ vs_call' = [op |-> "build_index", status |-> "ok",
                               mismatch |-> DimensionMismatch(vectors)]
    /\ UNCHANGED <<vs_dimension, vs_item_ids, vs_item_metadata, vsFiles>>
    /\ UNCHANGED notVS

\* add_items(item_ids, vectors, metadata)
VSAddItems(b) ==
    /\ vs_call = NoCall
    /\ Len(vs_item_ids) + Len(b.item_ids) <= MaxVSItems
    /\ vs_index # None => Len(vs_index.some.xb) + Len(b.vectors) <= MaxVSItems
    /\ LET x == NormalizeL2(b.vectors)
           index == IF vs_index = None THEN IndexFlatIP(vs_dimension) ELSE vs_index.some
       IN  IF IndexAddRaises(index, x)
           THEN /\ vs_index' = Some(index)
                /\ vs_call' = [op |-> "add_items", status |-> "AssertionError",
                               mismatch |-> DimensionMismatch(b.vectors), before |-> VSState]
                /\ UNCHANGED <<vs_item_ids, vs_item_vectors, vs_item_metadata>>
           ELSE /\ vs_index' = Some([index EXCEPT !.xb = @ \o x])
                /\ vs_item_ids' = vs_item_ids \o b.item_ids
                /\ vs_item_vectors' = IF Len(vs_item_vectors) > 0 THEN vs_item_vectors \o x ELSE x
                /\ vs_item_metadata' = IF b.metadata # <<>>
                                       THEN StoreMetadata(vs_item_metadata, b.item_ids, b.metadata, 1)
                                       ELSE vs_item_metadata
                /\ vs_call' = [op |-> "add_items", status |-> "ok",
                               mismatch |-> DimensionMismatch(b.vectors)]
    /\ UNCHANGED <<vs_dimension, vs_is_trained, vsFiles>>
    /\ UNCHANGED notVS

\* index.search(query, k) on a flat inner-product index: the k rows of largest
\* inner product, best first; where the index has fewer than k rows the tail
\* is filled with label -1 and the lowest score. Positions are 0-based. Equal
\* products come in row order.
RECURSIVE IndexSearch(_, _, _, _)
IndexSearch(xb, q, taken, k) ==
    IF k = 0 THEN <<>>
    ELSE LET rest == (1..Len(xb)) \ taken
         IN  IF rest = {}
             THEN <<[distance |-> -999, idx |-> -1]>> \o IndexSearch(xb, q, taken, k - 1)
             ELSE LET best == CHOOSE j \in rest : \A l \in rest :
                                  \/ Dot(xb[l], q) < Dot(xb[j], q)
                                  \/ (Dot(xb[l], q) = Dot(xb[j], q) /\ j <= l)
                  IN  <<[distance |-> Dot(xb[best], q), idx |-> best - 1]>>
                      \o IndexSearch(xb, q, taken \cup {best}, k - 1)

\* list[idx] for idx < len(list): a negative idx counts from the end.
PyItem(list, idx) == IF idx < 0 THEN list[Len(list) + 1 + idx] ELSE list[idx + 1]

\* search_similar(query_vector, k, filter_func) on a store with attributes s:
\* the status of the call and the list it returns.
SearchSimilar(s, query_vector, k, rejected) ==
    IF s.index = None \/ Len(s.item_ids) = 0 THEN [status |-> "ok", result |-> <<>>]
    ELSE LET q == NormalizeRow(query_vector)
             kk == IF k < Len(s.item_ids) THEN k ELSE Len(s.item_ids)
         IN  IF Len(q) # s.index.some.d THEN [status |-> "AssertionError", result |-> <<>>]
             ELSE LET hits == IndexSearch(s.index.some.xb, q, {}, kk)
                      entry(i) ==
                          IF hits[i].idx < Len(s.item_ids)
                          THEN LET item_id == PyItem(s.item_ids, hits[i].idx)
                               IN  [keep |-> item_id \notin rejected,
                                    item_id |-> item_id,
                                    similarity |-> hits[i].distance,
                                    rank |-> i,
                                    metadata |-> DictGet(s.item_metadata, item_id)]
                          ELSE [keep |-> FALSE, item_id |-> "-", similarity |-> 0,
                                rank |-> i, metadata |-> "{}"]
                      kept == SelectSeq([i \in 1..kk |-> entry(i)], LAMBDA e : e.keep)
                  IN  [status |-> "ok",
                       result |-> [i \in 1..Len(kept) |->
                                      [item_id |-> kept[i].item_id,
                                       similarity |-> kept[i].similarity,
                                       rank |-> kept[i].rank,
                                       metadata |-> kept[i].metadata]]]

\* get_similar_items without the membership test of line 103: list.index
\* raises ValueError for an id the list does not hold.
GetSimilarItemsUnguarded(s, item_id, k, exclude_self) ==
    IF item_id \notin Range(s.item_ids) THEN [status |-> "ValueError", result |-> <<>>]
    ELSE LET idx == IndexOf(s.item_ids, item_id)
         IN  IF idx > Len(s.item_vectors) THEN [status |-> "IndexError", result |-> <<>>]
             ELSE LET r == SearchSimilar(s, s.item_vectors[idx],
                                         k + (IF exclude_self THEN 1 ELSE 0), {})
                      results == IF exclude_self
                                 THEN SelectSeq(r.result, LAMBDA e : e.item_id # item_id)
                                 ELSE r.result
                  IN  [status |-> r.status, result |-> Take(results, k)]

\* get_similar_items(item_id, k, exclude_self) on a store with attributes s
GetSimilarItems(s, item_id, k, exclude_self) ==
    IF item_id \notin Range(s.item_ids) THEN [status |-> "ok", result |-> <<>>]
    ELSE LET idx == IndexOf(s.item_ids, item_id)
         IN  IF idx > Len(s.item_vectors) THEN [status |-> "IndexError", result |-> <<>>]
             ELSE LET r == SearchSimilar(s, s.item_vectors[idx],
                                         k + (IF exclude_self THEN 1 ELSE 0), {})
                      results == IF exclude_self
                                 THEN SelectSeq(r.result, LAMBDA e : e.item_id # item_id)
                                 ELSE r.result
                  IN  [status |-> r.status, result |-> Take(results, k)]

\* search_similar with self.item_metadata.setdefault(item_id, {}) in place of
\* .get(item_id, {}) at lines 84 and 91: the lookup stores the default.
VSSearchSimilarSetDefault(q, k, rejected) ==
    /\ vs_call = NoCall
    /\ LET r == SearchSimilar(VSState, q, k, rejected)
           found == {r.result[i].item_id : i \in 1..Len(r.result)}
           keys == {p[1] : p \in vs_item_metadata}
       IN  /\ vs_call' = [op |-> "search_similar", mismatch |-> Len(q) # vs_dimension,
                          query |-> q, k |-> k, rejected |-> rejected] @@ r
           /\ vs_item_metadata' = vs_item_metadata \cup {<<id, "{}">> : id \in found \ keys}
    /\ UNCHANGED <<vs_dimension, vs_index, vs_item_ids, vs_item_vectors, vs_is_trained, vsFiles>>
    /\ UNCHANGED notVS

\* search_similar(query_vector, k, filter_func)
VSSearchSimilar(q, k, rejected) ==
    /\ vs_call = NoCall
    /\ vs_call' = [op |-> "search_similar", mismatch |-> Len(q) # vs_dimension,
                   query |-> q, k |-> k, rejected |-> rejected]
                  @@ SearchSimilar(VSState, q, k, rejected)
    /\ UNCHANGED <<vsStore, vsFiles>>
    /\ UNCHANGED notVS

\* get_similar_items(item_id, k, exclude_self)
VSGetSimilarItems(item_id, k, exclude_self) ==
    /\ vs_call = NoCall
    /\ vs_call' = [op |-> "get_similar_items", item_id |-> item_id, k |-> k,
                   exclude_self |-> exclude_self,
                   known |-> item_id \in Range(vs_item_ids)]
                  @@ GetSimilarItems(VSState, item_id, k, exclude_self)
    /\ UNCHANGED <<vsStore, vsFiles>>
    /\ UNCHANGED notVS

\* save(filepath): the index file is written only when self.index is set
\* (line 180); the side tables are always written (lines 183-184).
VSSave ==
    /\ vs_call = NoCall
    /\ fs_index' = IF vs_index # None THEN vs_index ELSE fs_index
    /\ fs_pkl' = Some([dimension |-> vs_dimension, item_ids |-> vs_item_ids,
                       item_vectors |-> vs_item_vectors, item_metadata |-> vs_item_metadata,
                       is_trained |-> vs_is_trained])
    /\ vs_saved' = Some(VSState)
    /\ vs_call' = [op |-> "save", status |-> "ok"]
    /\ UNCHANGED vsStore
    /\ UNCHANGED notVS

\* A file that is there but cannot be read back (truncated, overwritten).
Corrupt == [corrupt |-> TRUE]

\* open / pickle.load / faiss.read_index succeed on file f.
Readable(f) == f # None /\ f # Corrupt

\* load without the try / except of lines 190 and 207: the exception of open,
\* pickle.load or faiss.read_index reaches the caller.
VSLoadUncaught ==
    /\ vs_call = NoCall
    /\ IF ~Readable(fs_pkl)
       THEN /\ vs_call' = [op |-> "load", status |-> "FileNotFoundError", result |-> FALSE]
            /\ UNCHANGED vsStore
       ELSE /\ vs_dimension' = fs_pkl.some.dimension
            /\ vs_item_ids' = fs_pkl.some.item_ids
            /\ vs_item_vectors' = fs_pkl.some.item_vectors
            /\ vs_item_metadata' = fs_pkl.some.item_metadata
            /\ vs_is_trained' = fs_pkl.some.is_trained
            /\ IF ~Readable(fs_index)
               THEN /\ vs_index' = vs_index
                    /\ vs_call' = [op |-> "load", status |-> "RuntimeError", result |-> FALSE]
               ELSE /\ vs_index' = fs_index
                    /\ vs_call' = [op |-> "load", status |-> "ok", result |-> TRUE]
    /\ UNCHANGED vsFiles
    /\ UNCHANGED notVS

\* load(filepath): the side tables are assigned (lines 195-199) before the
\* index file is read (line 202); any exception makes load return False
\* (lines 207-209).
VSLoad ==
    /\ vs_call = NoCall
    /\ IF ~Readable(fs_pkl)
       THEN /\ vs_call' = [op |-> "load", status |-> "ok", result |-> FALSE]
            /\ UNCHANGED vsStore
       ELSE /\ vs_dimension' = fs_pkl.some.dimension
            /\ vs_item_ids' = fs_pkl.some.item_ids
            /\ vs_item_vectors' = fs_pkl.some.item_vectors
            /\ vs_item_metadata' = fs_pkl.some.item_metadata
            /\ vs_is_trained' = fs_pkl.some.is_trained
            /\ IF ~Readable(fs_index)
               THEN /\ vs_index' = vs_index
                    /\ vs_call' = [op |-> "load", status |-> "ok", result |-> FALSE]
               ELSE /\ vs_index' = fs_index
                    /\ vs_call' = [op |-> "load", status |-> "ok", result |-> TRUE]
    /\ UNCHANGED vsFiles
    /\ UNCHANGED notVS

\* The caller has taken the outcome of its call.
VSReturn ==
    /\ vs_call # NoCall
    /\ vs_call' = NoCall
    /\ UNCHANGED <<vsStore, vsFiles>>
    /\ UNCHANGED notVS

NextVS ==
    \/ \E d \in VSDims : VSNew(d)
    \/ \E x \in VSBuilds : VSBuildIndex(x)
    \/ \E b \in VSBatches : VSAddItems(b)
    \/ \E q \in VSVectors, k \in VSKs, r \in VSFilters : VSSearchSimilar(q, k, r)
    \/ \E i \in VSQueryItems, k \in VSKs, e \in BOOLEAN : VSGetSimilarItems(i, k, e)
    \/ VSSave
    \/ VSLoad
    \/ VSReturn

\* Between two calls, something outside the process removes (to = None) or
\* damages (to = Corrupt) the side-table file or the index file; the files
\* are no longer those of the last save.
FSDamage(file, to) ==
    /\ vs_call = NoCall
    /\ IF file = "pkl"
       THEN Readable(fs_pkl) /\ fs_pkl' = to /\ UNCHANGED fs_index
       ELSE Readable(fs_index) /\ fs_index' = to /\ UNCHANGED fs_pkl
    /\ vs_saved' = None
    /\ UNCHANGED <<vsStore, vs_call>>
    /\ UNCHANGED notVS

\* The store with the faults of its files.
NextVSFiles ==
    \/ NextVS
    \/ \E file \in {"pkl", "index"}, to \in {None, Corrupt} : FSDamage(file, to)

\* Calls whose vectors have three components.
VSBuildsWide == {<<<<0, 0, 5>>>>}
VSBatchesWide == {[item_ids |-> <<"i3">>, vectors |-> <<<<0, 3, 4>>>>, metadata |-> <<>>]}
VSVectorsWide == {<<0, 0, 5>>}

\* batch_search(query_vectors, k) calls: the rows of one array.
VSQueryBatches == {<<<<6, 8>>, <<0, 5>>>>, <<<<0, 0, 5>>>>}

\* build_from_dataframe(df, vector_column) calls: the id column and the vector
\* column of df, without metadata_columns.
VSFrames == {[item_ids |-> <<>>, vectors |-> <<>>],
             [item_ids |-> <<"i1", "i1">>, vectors |-> <<<<6, 8>>, <<0, 5>>>>],
             [item_ids |-> <<"i2">>, vectors |-> <<<<0, 5>>>>]}

\* batch_search(query_vectors, k) on a store with attributes s. Only a missing
\* index returns early (line 123). index.search asserts the rows' dimension;
\* with no ids it is called with k = 0, which a faiss build either refuses
\* (outcome "AssertionError") or answers with empty rows (outcome "ok").
BatchSearch(s, query_vectors, k, outcome) ==
    IF s.index = None THEN [status |-> "ok", result |-> <<>>]
    ELSE IF \E i \in 1..Len(query_vectors) : Len(query_vectors[i]) # s.index.some.d
         THEN [status |-> "AssertionError", result |-> <<>>]
         ELSE IF Len(s.item_ids) = 0
              THEN IF outcome = "AssertionError"
                   THEN [status |-> "AssertionError", result |-> <<>>]
                   ELSE [status |-> "ok", result |-> [i \in 1..Len(query_vectors) |-> <<>>]]
              ELSE [status |-> "ok",
                    result |-> [i \in 1..Len(query_vectors) |->
                                   SearchSimilar(s, query_vectors[i], k, {}).result]]

\* batch_search(query_vectors, k)
VSBatchSearch(query_vectors, k, outcome) ==
    /\ vs_call = NoCall
    /\ vs_call' = [op |-> "batch_search", mismatch |-> DimensionMismatch(query_vectors)]
                  @@ BatchSearch(VSState, query_vectors, k, outcome)
    /\ UNCHANGED <<vsStore, vsFiles>>
    /\ UNCHANGED notVS

\* build_from_dataframe(df, vector_column): np.vstack of no rows raises
\* ValueError (line 158); otherwise the call is add_items(item_ids, vectors, [])
\* (line 166), whose outcome it passes on.
VSBuildFromDataframe(df) ==
    IF Len(df.item_ids) = 0
    THEN /\ vs_call = NoCall
         /\ vs_call' = [op |-> "build_from_dataframe", status |-> "ValueError"]
         /\ UNCHANGED <<vsStore, vsFiles>>
         /\ UNCHANGED notVS
    ELSE VSAddItems([item_ids |-> df.item_ids, vectors |-> df.vectors, metadata |-> <<>>])

\* The store in memory with every operation that takes vectors, and vectors
\* of both lengths.
NextVSOps ==
    \/ \E d \in VSDims : VSNew(d)
    \/ \E x \in VSBuilds \cup VSBuildsWide : VSBuildIndex(x)
    \/ \E b \in VSBatches \cup VSBatchesWide : VSAddItems(b)
    \/ \E q \in VSVectors \cup VSVectorsWide, k \in VSKs : VSSearchSimilar(q, k, {})
    \/ VSReturn
    \/ \E q \in VSQueryBatches, k \in VSKs, o \in {"ok", "AssertionError"} :
           VSBatchSearch(q, k, o)
    \/ \E df \in VSFrames : VSBuildFromDataframe(df)

\* Text is a sequence of characters; "A" is the one upper-case letter.
Lower(t) == [i \in 1..Len(t) |-> IF t[i] = "A" THEN "a" ELSE t[i]]

\* t in s, for str
Substring(t, s) == \E i \in 0..(Len(s) - Len(t)) : SubSeq(s, i + 1, i + Len(t)) = t

\* The dicts that the metadata values stand for; "{}" is the empty dict.
MetaDict(m) ==
    CASE m = "m1" -> [name |-> <<"A", "b">>, category |-> <<"x">>]
      [] m = "m2" -> [name |-> <<"b">>, description |-> <<"a">>, category |-> <<"y">>]
      [] OTHER -> <<>>

\* str(metadata.get(key, ''))
MetaText(md, key) == IF key \in DOMAIN md THEN md[key] ELSE <<>>

\* lines 250-254: name, description and category joined by blanks, lower-cased
ItemText(md) ==
    Lower(MetaText(md, "name") \o <<" ">> \o MetaText(md, "description") \o <<" ">>
          \o MetaText(md, "category"))

\* lines 266-277: a key the metadata does not hold is not compared; a list
\* (in) is matched by membership, any other value (eq) by equality.
MatchesFilters(md, filters) ==
    \A f \in filters :
        f[1] \in DOMAIN md =>
            IF "in" \in DOMAIN f[2] THEN md[f[1]] \in f[2].in ELSE md[f[1]] = f[2].eq

\* hybrid_search(query_vector, text_query, filters, k) on a store with
\* attributes s; text_query <<>> stands for None and '', filters {} for None
\* and {}: lines 246 and 262 test their truth only.
HybridSearch(s, query_vector, text_query, filters, k) ==
    LET r == SearchSimilar(s, query_vector, k * 2, {})
        by_text == IF text_query # <<>>
                   THEN SelectSeq(r.result, LAMBDA e : Substring(Lower(text_query),
                                                                  ItemText(MetaDict(e.metadata))))
                   ELSE r.result
        by_filters == IF filters # {}
                      THEN SelectSeq(by_text, LAMBDA e : MatchesFilters(MetaDict(e.metadata), filters))
                      ELSE by_text
    IN  IF r.status # "ok" THEN r
        ELSE [status |-> "ok", result |-> Take(by_filters, k), candidates |-> r.result]

\* add_items calls with a metadata dict per item, and with none.
VSBatchesMeta == {[item_ids |-> <<"i1", "i2">>, vectors |-> <<<<3, 4>>, <<0, 5>>>>,
                   metadata |-> <<"m1", "m2">>],
                  [item_ids |-> <<"i3">>, vectors |-> <<<<6, 8>>>>, metadata |-> <<>>]}

\* text_query arguments: none, one that differs from a name in case, one that
\* is in no text, one that reaches from a name into the description.
VSTextQueries == {<<>>, <<"a", "B">>, <<"z">>, <<"b", " ", "a">>}

\* filters arguments: none, a value, a list, a key no metadata holds.
VSMetaFilters == {{},
                  {<<"category", [eq |-> <<"x">>]>>},
                  {<<"category", [in |-> {<<"x">>, <<"y">>}]>>},
                  {<<"brand", [eq |-> <<"x">>]>>}}

\* hybrid_search(query_vector, text_query, filters, k)
VSHybridSearch(q, text_query, filters, k) ==
    /\ vs_call = NoCall
    /\ vs_call' = [op |-> "hybrid_search", query |-> q, text_query |-> text_query,
                   filters |-> filters, k |-> k]
                  @@ HybridSearch(VSState, q, text_query, filters, k)
    /\ UNCHANGED <<vsStore, vsFiles>>
    /\ UNCHANGED notVS

\* The store in memory with items that have metadata, and hybrid_search.
NextVSHybrid ==
    \/ \E d \in VSDims : VSNew(d)
    \/ \E b \in VSBatches \cup VSBatchesMeta : VSAddItems(b)
    \/ \E q \in VSVectors, t \in VSTextQueries, f \in VSMetaFilters, k \in VSKs :
           VSHybridSearch(q, t, f, k)
    \/ VSReturn

(***************************************************************************)
(* ContentBasedRecommender                                                 *)
(***************************************************************************)
\* The catalogs offered to fit: rows of the items frame.
CBCatalogA == <<[id |-> "i1", name |-> "pizza", is_vegetarian |-> TRUE, price |-> 90],
                [id |-> "i2", name |-> "pizza", is_vegetarian |-> FALSE, price |-> 650]>>
CBCatalogB == <<[id |-> "i3", name |-> "soup", is_vegetarian |-> TRUE, price |-> 120],
                [id |-> "i1", name |-> "soup", is_vegetarian |-> FALSE, price |-> 120],
                [id |-> "i2", name |-> "pizza", is_vegetarian |-> FALSE, price |-> 120]>>
CBCatalogEmpty == <<>>
CBCatalogs == {CBCatalogA, CBCatalogB, CBCatalogEmpty}

CBQueryItems == {"i1", "i3", "i9"}
CBCounts == {1, 2}
CBExcludes == {{}, {"i2"}}

\* _combine_features(row): the words of the document, in order. The absent
\* columns (description, category, business_type) add empty strings only.
CombineFeatures(row) ==
    <<row.name>>
    \o (IF row.is_vegetarian THEN <<"vegetarian">> ELSE <<>>)
    \o <<IF row.price < 100 THEN "budget"
         ELSE IF row.price < 500 THEN "midrange" ELSE "premium">>

\* The terms of a document under ngram_range=(1, 2): its words and its pairs
\* of adjacent words.
TermsOf(doc) ==
    {<<doc[i]>> : i \in 1..Len(doc)} \cup {<<doc[i], doc[i + 1]>> : i \in 1..(Len(doc) - 1)}

\* Every term of the catalogs, in the alphabetical order of
\* get_feature_names_out.
CBAllTerms ==
    <<<<"budget">>, <<"midrange">>, <<"pizza">>, <<"pizza", "midrange">>,
      <<"pizza", "premium">>, <<"pizza", "vegetarian">>, <<"premium">>, <<"soup">>,
      <<"soup", "midrange">>, <<"soup", "vegetarian">>, <<"vegetarian">>,
      <<"vegetarian", "budget">>, <<"vegetarian", "midrange">>>>

\* The smoothed idf, ln((1 + n) / (1 + df)) + 1, for the catalog sizes above,
\* rounded to thirds (1.00, 1.41, 1.69, 1.29) to keep the products small.
Idf(n, df) ==
    CASE n = df -> 3
      [] n = 2 /\ df = 1 -> 4
      [] n = 3 /\ df = 1 -> 5
      [] n = 3 /\ df = 2 -> 4

\* TfidfVectorizer.fit_transform raises ValueError on an empty vocabulary.
CBTfidfRaises(items) == Len(items) = 0

\* vectorizer.get_feature_names_out() after fit_transform
FeatureNames(items) ==
    SelectSeq(CBAllTerms, LAMBDA t : \E i \in 1..Len(items) : t \in TermsOf(CombineFeatures(items[i])))

\* vectorizer.fit_transform: one row per item, tf * idf per term (every term
\* occurs once in its document). The rows are kept before the L2 scaling,
\* which changes neither a cosine nor the order of a row's weights.
FitTransform(items) ==
    LET names == FeatureNames(items)
        df(t) == Cardinality({i \in 1..Len(items) : t \in TermsOf(CombineFeatures(items[i]))})
    IN  [i \in 1..Len(items) |->
            [j \in 1..Len(names) |->
                IF names[j] \in TermsOf(CombineFeatures(items[i]))
                THEN Idf(Len(items), df(names[j])) ELSE 0]]

\* ContentBasedRecommender.__init__
InitCB ==
    /\ cb_item_ids = None
    /\ cb_item_features = None
    /\ cb_feature_names = None
    /\ cb_fitted = FALSE
    /\ cb_call = NoCall

notCB == <<focus, hybridVars, cfVars, rkVars, vsVars, auVars, coVars, osVars, akVars, wsVars>>

\* fit(items): the id list is stored first (line 27), then the vectorizer runs
\* (line 36).
CBFit(items) ==
    /\ cb_call = NoCall
    /\ cb_item_ids' = Some([i \in 1..Len(items) |-> items[i].id])
    /\ IF CBTfidfRaises(items)
       THEN /\ cb_call' = [op |-> "fit", status |-> "ValueError"]
            /\ cb_fitted' = FALSE
            /\ UNCHANGED <<cb_item_features, cb_feature_names>>
       ELSE /\ cb_item_features' = Some(FitTransform(items))
            /\ cb_feature_names' = Some(FeatureNames(items))
            /\ cb_fitted' = TRUE
            /\ cb_call' = [op |-> "fit", status |-> "ok"]
    /\ UNCHANGED notCB

\* recommend_similar_items, lines 101-111: the loop over sorted_indices.
RECURSIVE SimilarLoop(_, _, _, _, _, _, _, _)
SimilarLoop(order, i, recs, n, item_id, exclude, item_ids, similarities) ==
    IF i > Len(order) \/ Len(recs) >= n THEN [status |-> "ok", result |-> recs]
    ELSE IF order[i] > Len(item_ids) THEN [status |-> "IndexError", result |-> <<>>]
    ELSE LET current_item_id == item_ids[order[i]]
         IN  IF current_item_id # item_id /\ current_item_id \notin exclude
             THEN SimilarLoop(order, i + 1,
                              Append(recs, [item_id |-> current_item_id,
                                            similarity |-> similarities[order[i]]]),
                              n, item_id, exclude, item_ids, similarities)
             ELSE SimilarLoop(order, i + 1, recs, n, item_id, exclude, item_ids, similarities)

\* recommend_similar_items(item_id, n_recommendations, exclude_items)
CBRecommendSimilarItems(item_id, n, exclude) ==
    /\ cb_call = NoCall
    /\ LET call == [op |-> "recommend_similar_items", item_id |-> item_id,
                    known |-> cb_item_ids # None /\ item_id \in Range(cb_item_ids.some)]
       IN  IF cb_item_ids = None
           THEN cb_call' = call @@ [status |-> "TypeError", result |-> <<>>]
           ELSE IF item_id \notin Range(cb_item_ids.some)
           THEN cb_call' = call @@ [status |-> "ok", result |-> <<>>]
           ELSE LET item_idx == IndexOf(cb_item_ids.some, item_id)
                IN  IF RowError(cb_item_features, item_idx) # ""
                    THEN cb_call' = call @@ [status |-> RowError(cb_item_features, item_idx),
                                             result |-> <<>>]
                    ELSE LET rows == cb_item_features.some
                             similarities == [j \in 1..Len(rows) |-> Cosine(rows[item_idx], rows[j])]
                         IN  \E asc \in ArgSortsCos(similarities) :
                                cb_call' = call @@ SimilarLoop(Reverse(asc), 1, <<>>, n, item_id,
                                                               exclude, cb_item_ids.some, similarities)
    /\ UNCHANGED <<cbModel, cb_fitted, notCB>>

\* get_item_features(item_id, top_n)
CBGetItemFeatures(item_id, top_n) ==
    /\ cb_call = NoCall
    /\ LET call == [op |-> "get_item_features", item_id |-> item_id,
                    known |-> cb_item_ids # None /\ item_id \in Range(cb_item_ids.some)]
       IN  IF cb_item_ids = None
           THEN cb_call' = call @@ [status |-> "TypeError", result |-> <<>>]
           ELSE IF item_id \notin Range(cb_item_ids.some)
           THEN cb_call' = call @@ [status |-> "ok", result |-> <<>>]
           ELSE LET item_idx == IndexOf(cb_item_ids.some, item_id)
                IN  IF RowError(cb_item_features, item_idx) # ""
                    THEN cb_call' = call @@ [status |-> RowError(cb_item_features, item_idx),
                                             result |-> <<>>]
                    ELSE LET item_vector == cb_item_features.some[item_idx]
                             feature_indices == SelectSeq([j \in 1..Len(item_vector) |-> j],
                                                          LAMBDA j : item_vector[j] # 0)
                             feature_values == [p \in 1..Len(feature_indices) |->
                                                   item_vector[feature_indices[p]]]
                         IN  \E asc \in ArgSorts(feature_values) :
                                LET sorted_indices == Take(Reverse(asc), top_n)
                                    kept == SelectSeq(sorted_indices, LAMBDA p :
                                                feature_indices[p] <= Len(cb_feature_names.some))
                                IN  cb_call' = call @@
                                        [status |-> "ok",
                                         result |-> [p \in 1..Len(kept) |->
                                            [feature |-> cb_feature_names.some[feature_indices[kept[p]]],
                                             importance |-> feature_values[kept[p]]]]]
    /\ UNCHANGED <<cbModel, cb_fitted, notCB>>

\* The names of the nonzero columns of a row.
RowFeatures(row, names) == {names[j] : j \in {j \in 1..Len(row) : row[j] # 0}}

\* explain_recommendation(source_item_id, target_item_id). A dict is a record
\* with the set of its keys; {} is [keys |-> {}].
CBExplainRecommendation(source_item_id, target_item_id) ==
    /\ cb_call = NoCall
    /\ LET call == [op |-> "explain_recommendation", item_id |-> source_item_id,
                    target |-> target_item_id,
                    known |-> /\ cb_item_ids # None
                              /\ source_item_id \in Range(cb_item_ids.some)
                              /\ target_item_id \in Range(cb_item_ids.some)]
       IN  IF cb_item_ids = None
           THEN cb_call' = call @@ [status |-> "TypeError", result |-> [keys |-> {}]]
           ELSE IF \/ source_item_id \notin Range(cb_item_ids.some)
                   \/ target_item_id \notin Range(cb_item_ids.some)
           THEN cb_call' = call @@ [status |-> "ok", result |-> [keys |-> {}]]
           ELSE LET source_idx == IndexOf(cb_item_ids.some, source_item_id)
                    target_idx == IndexOf(cb_item_ids.some, target_item_id)
                    err == IF RowError(cb_item_features, source_idx) # ""
                           THEN RowError(cb_item_features, source_idx)
                           ELSE RowError(cb_item_features, target_idx)
                IN  IF err # ""
                    THEN cb_call' = call @@ [status |-> err, result |-> [keys |-> {}]]
                    ELSE LET common_features ==
                                 RowFeatures(cb_item_features.some[source_idx], cb_feature_names.some)
                                 \cap RowFeatures(cb_item_features.some[target_idx], cb_feature_names.some)
                         IN  cb_call' = call @@
                                 [status |-> "ok",
                                  result |-> [keys |-> {"source_item", "target_item",
                                                        "common_features", "common_count"},
                                              source_item |-> source_item_id,
                                              target_item |-> target_item_id,
                                              common_features |-> common_features,
                                              common_count |-> Cardinality(common_features)]]
    /\ UNCHANGED <<cbModel, cb_fitted, notCB>>

\* The caller has taken the outcome of its call.
CBReturn ==
    /\ cb_call # NoCall
    /\ cb_call' = NoCall
    /\ UNCHANGED <<cbModel, cb_fitted, notCB>>

NextCB ==
    \/ \E items \in CBCatalogs : CBFit(items)
    \/ \E i \in CBQueryItems, n \in CBCounts, x \in CBExcludes : CBRecommendSimilarItems(i, n, x)
    \/ \E i \in CBQueryItems, n \in CBCounts : CBGetItemFeatures(i, n)
    \/ \E i, j \in CBQueryItems : CBExplainRecommendation(i, j)
    \/ CBReturn

\* The preference structures callers pass to recommend_for_user_profile.
\* is_vegan is False in all of them.
CBProfiles ==
    [preferred_categories : {<<>>, <<"pizza">>, <<"soup">>},
     is_vegetarian : BOOLEAN,
     price_preference : {"budget", "premium"},
     preferred_items : {<<>>, <<"i1">>, <<"i2", "i1">>}]

\* _create_profile_text(profile): the words of the document, in order. The
\* loop over preferred_items (lines 162-168) adds nothing.
CreateProfileText(profile) ==
    profile.preferred_categories
    \o (IF profile.is_vegetarian THEN <<"vegetarian">> ELSE <<>>)
    \o <<profile.price_preference>>

\* self.vectorizer.transform([profile_text]): the idf of every term of the
\* fitted vocabulary that the document has (each at most once). The idf of a
\* term is the weight it has in the rows of the items that hold it.
ProfileVector(doc, names, rows) ==
    [j \in 1..Len(names) |->
        IF names[j] \in TermsOf(doc)
        THEN LET holders == {i \in 1..Len(rows) : rows[i][j] # 0}
             IN  IF holders = {} THEN 0 ELSE rows[CHOOSE i \in holders : TRUE][j]
        ELSE 0]

\* recommend_for_user_profile(user_profile, n_recommendations). Before any fit
\* the vectorizer raises NotFittedError. After a fit that raised, the
\* vectorizer is either left without its idf (refit = "reset") or as the fit
\* before left it ("kept"), by the version of the library.
CBRecommendForUserProfile(user_profile, n, refit) ==
    /\ cb_call = NoCall
    /\ LET profile_text == CreateProfileText(user_profile)
           call == [op |-> "recommend_for_user_profile", profile |-> user_profile, n |-> n,
                    document |-> profile_text]
       IN  IF cb_feature_names = None \/ (~cb_fitted /\ refit = "reset")
           THEN cb_call' = call @@ [status |-> "NotFittedError", result |-> <<>>]
           ELSE LET rows == cb_item_features.some
                    profile_vector == ProfileVector(profile_text, cb_feature_names.some, rows)
                    similarities == [j \in 1..Len(rows) |-> Cosine(profile_vector, rows[j])]
                IN  \E asc \in ArgSortsCos(similarities) :
                       LET top == Take(Reverse(asc), n)
                       IN  IF \E i \in 1..Len(top) : top[i] > Len(cb_item_ids.some)
                           THEN cb_call' = call @@ [status |-> "IndexError", result |-> <<>>]
                           ELSE cb_call' = call @@
                                    [status |-> "ok",
                                     result |-> [i \in 1..Len(top) |->
                                                    [item_id |-> cb_item_ids.some[top[i]],
                                                     similarity |-> similarities[top[i]]]]]
    /\ UNCHANGED <<cbModel, cb_fitted, notCB>>

\* fit and the recommendation for a profile.
NextCBProfile ==
    \/ \E items \in CBCatalogs : CBFit(items)
    \/ \E pr \in CBProfiles, n \in CBCounts, refit \in {"kept", "reset"} :
           CBRecommendForUserProfile(pr, n, refit)
    \/ CBReturn

(***************************************************************************)
(* Authentication: POST /auth/register and POST /auth/login                *)
(* (app/routers/auth_router.py, app/services/auth_service.py). The users   *)
(* table is a function from phone to a row or None. A response is its HTTP *)
(* status and whether it carries tokens. auth_service.py, line 4, imports  *)
(* from the package app.models.global, whose name is a reserved word, so   *)
(* the module as written does not compile; the handlers are modelled as    *)
(* they run once that import loads.                                        *)
(***************************************************************************)
\* Phones that get registered, and a phone too short for the schema.
AuthPhones == {"+919876543211", "+919876543212"}
AuthLoginPhones == AuthPhones \cup {"12345"}
AuthPasswords == {"Test@123", "WrongPassword", "abc"}
\* device_token of a login request; None when absent.
AuthDeviceTokens == {None, Some("tok")}

\* len(s) of the strings above.
StrLen(s) ==
    CASE s = "+919876543211" -> 13
      [] s = "+919876543212" -> 13
      [] s = "12345" -> 5
      [] s = "Test@123" -> 8
      [] s = "WrongPassword" -> 13
      [] s = "abc" -> 3

\* LoginRequest / RegisterRequest: phone of 10 to 15 characters, password of
\* at least 6; a request that fails is answered 422 before the handler runs.
SchemaAccepts(phone, password) ==
    /\ 10 <= StrLen(phone) /\ StrLen(phone) <= 15
    /\ 6 <= StrLen(password)

\* get_password_hash(password): a bcrypt hash, kept as the password it is of.
GetPasswordHash(password) == [bcrypt |-> password]

\* verify_password(plain_password, hashed_password)
VerifyPassword(plain_password, hashed_password) == hashed_password.bcrypt = plain_password

\* select(User).where(User.phone == phone) ... scalar_one_or_none()
UserByPhone(phone) == IF phone \in AuthPhones THEN au_users[phone] ELSE None

\* authenticate_user(phone, password, db): the message of the
\* AuthenticationError it raises, "" when it returns the user.
AuthenticateUser(phone, password) ==
    LET user == UserByPhone(phone)
    IN  IF user = None THEN "Invalid phone or password"
        ELSE IF ~VerifyPassword(password, user.some.password_hash) THEN "Invalid phone or password"
        ELSE IF ~user.some.is_active THEN "Account is deactivated"
        ELSE IF user.some.is_blocked THEN "Account is blocked"
        ELSE ""

\* create_tokens(user): both tokens are made (lines 161-166); building the
\* result evaluates settings.ACCESS_TOKEN_EXPIRE_MINUTES (line 172), and
\* auth_service.py neither imports nor defines settings.
CreateTokens(user) == [raised |-> "NameError"]

\* The response to an outcome of create_tokens: the dict it returned, or the
\* answer of the handler for unhandled exceptions (main.py, lines 112-118).
TokensResponse(outcome) ==
    IF outcome.raised = "" THEN [status |-> 200, tokens |-> TRUE]
    ELSE [status |-> 500, tokens |-> FALSE]

InitAuth ==
    /\ au_users = [p \in AuthPhones |-> None]
    /\ au_call = NoCall

notAuth == <<focus, hybridVars, cfVars, rkVars, vsVars, cbVars, coVars, osVars, akVars, wsVars>>

\* POST /auth/register: the row is committed (lines 74-75) before the tokens
\* are made (router line 54).
AuthRegister(phone, password) ==
    /\ au_call = NoCall
    /\ IF ~SchemaAccepts(phone, password)
       THEN /\ au_call' = [op |-> "register", status |-> 422, tokens |-> FALSE]
            /\ UNCHANGED au_users
       ELSE IF UserByPhone(phone) # None
       THEN /\ au_call' = [op |-> "register", status |-> 400, tokens |-> FALSE]
            /\ UNCHANGED au_users
       ELSE LET user == [password_hash |-> GetPasswordHash(password), is_active |-> TRUE,
                         is_blocked |-> FALSE, device_token |-> None]
            IN  /\ au_users' = [au_users EXCEPT ![phone] = Some(user)]
                /\ au_call' = [op |-> "register"] @@ TokensResponse(CreateTokens(user))
    /\ UNCHANGED notAuth

\* POST /auth/login. The call records what held of the phone and the password
\* when the request arrived.
AuthLogin(phone, password, device_token) ==
    /\ au_call = NoCall
    /\ LET user == UserByPhone(phone)
           call == [op |-> "login",
                    accepted |-> SchemaAccepts(phone, password),
                    registered |-> user # None,
                    matches |-> user # None /\ VerifyPassword(password, user.some.password_hash),
                    active |-> user # None /\ user.some.is_active,
                    blocked |-> user # None /\ user.some.is_blocked]
       IN  IF ~SchemaAccepts(phone, password)
           THEN /\ au_call' = call @@ [status |-> 422, tokens |-> FALSE]
                /\ UNCHANGED au_users
           ELSE IF AuthenticateUser(phone, password) # ""
           THEN /\ au_call' = call @@ [status |-> 401, tokens |-> FALSE]
                /\ UNCHANGED au_users
           ELSE /\ au_users' = IF device_token # None
                               THEN [au_users EXCEPT ![phone] =
                                        Some([user.some EXCEPT !.device_token = device_token])]
                               ELSE au_users
                /\ au_call' = call @@ TokensResponse(CreateTokens(user.some))
    /\ UNCHANGED notAuth

\* The columns is_active and is_blocked of a row are changed in the database.
AuthSetFlags(phone, is_active, is_blocked) ==
    /\ au_call = NoCall
    /\ au_users[phone] # None
    /\ au_users' = [au_users EXCEPT ![phone] =
                       Some([au_users[phone].some EXCEPT !.is_active = is_active,
                                                         !.is_blocked = is_blocked])]
    /\ UNCHANGED au_call
    /\ UNCHANGED notAuth

\* The client has read the response.
AuthReturn ==
    /\ au_call # NoCall
    /\ au_call' = NoCall
    /\ UNCHANGED au_users
    /\ UNCHANGED notAuth

NextAuth ==
    \/ \E p \in AuthPhones, w \in AuthPasswords : AuthRegister(p, w)
    \/ \E p \in AuthLoginPhones, w \in AuthPasswords, t \in AuthDeviceTokens : AuthLogin(p, w, t)
    \/ \E p \in AuthPhones, a \in BOOLEAN, b \in BOOLEAN : AuthSetFlags(p, a, b)
    \/ AuthReturn

(***************************************************************************)
(* HybridRecommender._collaborative_filtering, lines 100-123, run on its   *)
(* own over rating matrices given cell by cell. user_similarity is the     *)
(* matrix of row cosines that _calculate_similarities makes of the matrix  *)
(* (line 41); a score is a rating times a cosine, kept exactly.            *)
(***************************************************************************)
\* The values of a cell: 0 (fill_value, or a rating of 0) and two ratings.
CollabRatings == {0, 3, 5}

CollabItems == <<"i1", "i2">>
CollabItemsWide == <<"i1", "i2", "i3", "i4", "i5", "i6", "i7">>

\* A matrix from its rows, one per user of index.
MatrixOfRows(index, columns, rows) ==
    [index |-> index, columns |-> columns,
     val |-> [u \in Range(index), i \in Range(columns) |->
                 rows[IndexOf(index, u)][IndexOf(columns, i)]]]

\* The matrices the stream is run on: every matrix of three users and two
\* items, and two matrices with more than five items the target has not rated.
CollabMatrices ==
    {[index |-> AllUsers, columns |-> CollabItems, val |-> v] :
        v \in [Range(AllUsers) \X Range(CollabItems) -> CollabRatings]}
    \cup {MatrixOfRows(<<"u1", "u2">>, CollabItemsWide,
                       <<<<5, 0, 0, 0, 0, 0, 0>>, <<5, 3, 0, 5, 3, 5, 3>>>>),
          MatrixOfRows(<<"u1", "u2">>, CollabItemsWide,
                       <<<<5, 0, 0, 0, 0, 0, 0>>, <<5, 3, 0, 0, 0, 0, 0>>>>)}

\* The user ids the stream is asked for; "u9" is in no matrix.
CollabUsers == {"u1", "u2", "u3", "u9"}

\* self.user_item_matrix.loc[user_id]
MatrixRow(m, user_id) == [j \in 1..Len(m.columns) |-> m.val[user_id, m.columns[j]]]

\* self.user_similarity[user_idx]
UserSimilarityRow(m, user_idx) ==
    [k \in 1..Len(m.index) |-> Cosine(MatrixRow(m, m.index[user_idx]), MatrixRow(m, m.index[k]))]

\* rating * self.user_similarity[user_idx, sim_user_idx]
ScoreTimes(rating, cos) == [num |-> rating * cos.num, den |-> cos.den]

\* sim_ratings[target_ratings == 0].nlargest(5): the columns where the target's
\* cell is 0, by the similar user's cell, largest first, the first five;
\* equal cells keep the order of the columns.
NewItems(m, user_id, sim_user_id) ==
    LET masked == SelectSeq(m.columns, LAMBDA i : m.val[user_id, i] = 0)
        cells == [j \in 1..Len(masked) |-> [item_id |-> masked[j], score |-> m.val[sim_user_id, masked[j]]]]
    IN  Take(SortedByScore(cells), 5)

\* lines 106-121, from similar user k on
RECURSIVE CollabLoop(_, _, _, _)
CollabLoop(m, user_idx, similar_users, k) ==
    IF k > Len(similar_users) THEN <<>>
    ELSE LET sim_user_idx == similar_users[k]
             sim_user_id == m.index[sim_user_idx]
             new_items == NewItems(m, m.index[user_idx], sim_user_id)
         IN  [j \in 1..Len(new_items) |->
                 Candidate(new_items[j].item_id,
                           ScoreTimes(new_items[j].score, UserSimilarityRow(m, user_idx)[sim_user_idx]),
                           "collaborative", <<"similar_user", sim_user_id>>)]
             \o CollabLoop(m, user_idx, similar_users, k + 1)

\* The stream before any call, with no matrix.
InitCollabIdle ==
    /\ co_matrix = None /\ co_user = "-" /\ co_similar = <<>> /\ co_recs = <<>> /\ co_done = FALSE

InitCollab ==
    /\ co_matrix \in CollabMatrices
    /\ co_user \in CollabUsers
    /\ co_similar = <<>>
    /\ co_recs = <<>>
    /\ co_done = FALSE

\* The other classes' instances.
notCollab == <<focus, hybridVars, cfVars, rkVars, vsVars, cbVars, auVars, osVars, akVars, wsVars>>

\* _collaborative_filtering(user_id, n_recommendations)
HybridCollaborativeFiltering ==
    /\ ~co_done
    /\ IF co_user \in Range(co_matrix.index)
       THEN LET user_idx == IndexOf(co_matrix.index, co_user)
            IN  \E p \in ArgSortsCos(UserSimilarityRow(co_matrix, user_idx)) :
                   LET similar_users == Slice1(Reverse(p), 5)
                   IN  /\ co_similar' = similar_users
                       /\ co_recs' = CollabLoop(co_matrix, user_idx, similar_users, 1)
       ELSE co_similar' = <<>> /\ co_recs' = <<>>
    /\ co_done' = TRUE
    /\ UNCHANGED <<co_matrix, co_user, notCollab>>

NextCollab == HybridCollaborativeFiltering

(***************************************************************************)
(* OrderService (app/services/order_service.py): stock, orders and carts   *)
(* of one business database.  Every request runs in a session of its own   *)
(* (database_manager.py, get_business_session), on PostgreSQL at its        *)
(* default isolation level: what a request has selected is not locked, and  *)
(* its writes become visible together at its commit.  A request is          *)
(* therefore two steps, its reads and then its writes, and the steps of     *)
(* different requests interleave.                                           *)
(***************************************************************************)
MaxOrders == 2
MaxStatusUpdates == 2
InitialStock == 2

\* The rows of the items table: "a" is on sale, "n" is not active; any other
\* id has no row.
OSItems == {"a", "n"}
ItemIsActive == [i \in OSItems |-> i = "a"]

OSCustomers == {"c1", "c2"}
OSBusinesses == {"b1", "b2"}
OSStatuses == {"pending", "confirmed", "delivered", "cancelled"}
OSRequests == {"r1", "r2"}

Line(item_id, quantity) == [item_id |-> item_id, quantity |-> quantity]

\* order_data.items: at least one line, every quantity positive
\* (order_schema.py).
OrderLists ==
    {<<Line("a", 1)>>, <<Line("a", 2)>>, <<Line("a", 1), Line("a", 1)>>,
     <<Line("a", 1), Line("n", 1)>>, <<Line("z", 1)>>, <<Line("a", 3)>>}

Idle == [pc |-> "idle"]

\* The first loop of create_order (lines 31-57): the first line whose item
\* is missing, inactive or short of stock raises; each line is compared
\* with the stock of its item as selected, earlier lines not subtracted.
RECURSIVE CheckLines(_, _, _)
CheckLines(stock, lines, i) ==
    IF i > Len(lines) THEN ""
    ELSE LET order_item == lines[i]
         IN  IF order_item.item_id \notin OSItems
                \/ ~ItemIsActive[order_item.item_id]
             THEN "Item not available"
             ELSE IF stock[order_item.item_id] < order_item.quantity
             THEN "Insufficient stock"
             ELSE CheckLines(stock, lines, i + 1)

\* One UPDATE items SET stock_quantity = stock_quantity + sign * quantity
\* per line (lines 99-105 and 273-279); an id without a row updates nothing.
RECURSIVE UpdateStock(_, _, _, _)
UpdateStock(stock, lines, i, sign) ==
    IF i > Len(lines) THEN stock
    ELSE LET l == lines[i]
             next == IF l.item_id \in DOMAIN stock
                     THEN [stock EXCEPT ![l.item_id] = @ + sign * l.quantity]
                     ELSE stock
         IN  UpdateStock(next, lines, i + 1, sign)

InitOrdersIdle ==
    /\ os_stock = [i \in OSItems |-> InitialStock]
    /\ os_orders = <<>>
    /\ os_cart = [c \in OSCustomers |-> TRUE]
    /\ os_req = [r \in OSRequests |-> Idle]
    /\ os_last = NoCall
    /\ os_updates = 0

\* The other classes' instances.
notOrders == <<focus, hybridVars, cfVars, rkVars, vsVars, cbVars, auVars, coVars, akVars, wsVars>>

\* Creates that have passed their checks and not yet committed.
CreatesInFlight == Cardinality({r \in OSRequests : os_req[r].pc = "create"})

\* create_order, lines 27-57: the checks.  A raise leaves the session
\* without a write.
CreateOrderCheck(r, customer_id, lines) ==
    /\ os_req[r] = Idle
    /\ Len(os_orders) + CreatesInFlight < MaxOrders
    /\ LET raised == CheckLines(os_stock, lines, 1)
       IN  IF raised # ""
           THEN /\ os_last' = [op |-> "create_order", req |-> r, raised |-> raised]
                /\ UNCHANGED os_req
           ELSE /\ os_req' = [os_req EXCEPT ![r] =
                        [pc |-> "create", customer_id |-> customer_id, items |-> lines]]
                /\ UNCHANGED os_last
    /\ UNCHANGED <<os_stock, os_orders, os_cart, os_updates, notOrders>>

\* create_order, lines 76-114: the order is added as 'pending', the stock of
\* every line is subtracted, the customer's cart is emptied, and all of it is
\* committed.
CreateOrderCommit(r) ==
    /\ os_req[r].pc = "create"
    /\ os_orders' = Append(os_orders,
            [status |-> "pending", items |-> os_req[r].items,
             customer_id |-> os_req[r].customer_id, business_id |-> "b1"])
    /\ os_stock' = UpdateStock(os_stock, os_req[r].items, 1, -1)
    /\ os_cart' = [os_cart EXCEPT ![os_req[r].customer_id] = FALSE]
    /\ os_req' = [os_req EXCEPT ![r] = Idle]
    /\ os_last' = [op |-> "create_order", req |-> r, raised |-> ""]
    /\ UNCHANGED <<os_updates, notOrders>>

\* cancel_order, lines 262-269: the order is selected and checked.
CancelOrderRead(r, order_id, customer_id) ==
    /\ os_req[r] = Idle
    /\ IF order_id \notin DOMAIN os_orders
          \/ os_orders[order_id].customer_id # customer_id
          \/ os_orders[order_id].status \notin {"pending", "confirmed"}
       THEN /\ os_last' = [op |-> "cancel_order", req |-> r, order |-> order_id,
                           result |-> FALSE]
            /\ UNCHANGED os_req
       ELSE /\ os_req' = [os_req EXCEPT ![r] = [pc |-> "cancel", order |-> order_id]]
            /\ UNCHANGED os_last
    /\ UNCHANGED <<os_stock, os_orders, os_cart, os_updates, notOrders>>

\* cancel_order, lines 271-285: the status is written, the stock of every
\* line of the order is added back, and both are committed.
CancelOrderCommit(r) ==
    /\ os_req[r].pc = "cancel"
    /\ LET order_id == os_req[r].order
       IN  /\ os_orders' = [os_orders EXCEPT ![order_id].status = "cancelled"]
           /\ os_stock' = UpdateStock(os_stock, os_orders[order_id].items, 1, 1)
           /\ os_last' = [op |-> "cancel_order", req |-> r, order |-> order_id,
                          result |-> TRUE]
    /\ os_req' = [os_req EXCEPT ![r] = Idle]
    /\ UNCHANGED <<os_cart, os_updates, notOrders>>

\* update_order_status, lines 230-254: any status is written to an order of
\* the business; no stock is touched.  The number of calls is capped.
UpdateOrderStatus(order_id, status, business_id) ==
    /\ os_updates < MaxStatusUpdates
    /\ os_updates' = os_updates + 1
    /\ IF order_id \notin DOMAIN os_orders
          \/ os_orders[order_id].business_id # business_id
       THEN /\ os_last' = [op |-> "update_order_status", order |-> order_id,
                           status |-> status, result |-> FALSE]
            /\ UNCHANGED os_orders
       ELSE /\ os_orders' = [os_orders EXCEPT ![order_id].status = status]
            /\ os_last' = [op |-> "update_order_status", order |-> order_id,
                           status |-> status, result |-> TRUE]
    /\ UNCHANGED <<os_stock, os_cart, os_req, notOrders>>

NextOrders ==
    \/ \E r \in OSRequests, l \in OrderLists : CreateOrderCheck(r, "c1", l)
    \/ \E r \in OSRequests : CreateOrderCommit(r)
    \/ \E r \in OSRequests, o \in 1..MaxOrders, c \in OSCustomers :
          CancelOrderRead(r, o, c)
    \/ \E r \in OSRequests : CancelOrderCommit(r)
    \/ \E o \in 1..MaxOrders, s \in OSStatuses, b \in OSBusinesses :
          UpdateOrderStatus(o, s, b)

\* The same service with one request at a time: every request commits before
\* the next one starts.
NextOrdersSequential ==
    \/ \E l \in OrderLists : CreateOrderCheck("r1", "c1", l)
    \/ CreateOrderCommit("r1")
    \/ \E o \in 1..MaxOrders, c \in OSCustomers : CancelOrderRead("r1", o, c)
    \/ CancelOrderCommit("r1")

(***************************************************************************)
(* Access keys (app/services/access_key_service.py) and vendor            *)
(* registration (AuthService.register_vendor): one row of access_keys in   *)
(* the global database.  Every request has a session of its own            *)
(* (expire_on_commit=False): it selects the row into an object, works on    *)
(* the object's attributes as loaded, and its commit writes the attributes  *)
(* it has changed, as the values it computed.                               *)
(***************************************************************************)
MaxNow == 2
MaxLimit == 2

AKRequests == {"r1", "r2"}

\* The rows generate_access_key makes (lines 36-46): unused, active, a
\* limit, and valid for ever or until time 1.
AKInitialKeys ==
    {[max_businesses |-> m, used_count |-> 0, is_active |-> TRUE, valid_until |-> v] :
        m \in 1..MaxLimit, v \in {None, Some(1)}}

\* valid_until and valid_until < now (validate_access_key, lines 91-92).
IsExpired(access_key, now) ==
    access_key.valid_until # None /\ access_key.valid_until.some < now

\* The arguments of update_access_key that matter here, one field a call.
AKUpdates ==
    {[max_businesses |-> Some(m), valid_until |-> None, is_active |-> None] :
        m \in 1..MaxLimit}
    \cup {[max_businesses |-> None, valid_until |-> Some(1), is_active |-> None]}
    \cup {[max_businesses |-> None, valid_until |-> None, is_active |-> Some(b)] :
        b \in BOOLEAN}

\* The flush of a session: the attributes whose value differs from the one
\* loaded are written over the row, the others are left as the row has them.
Flush(row, loaded, object) ==
    [f \in DOMAIN row |-> IF object[f] # loaded[f] THEN object[f] ELSE row[f]]

InitKeysIdle ==
    /\ ak_key = [max_businesses |-> 1, used_count |-> 0, is_active |-> TRUE,
                 valid_until |-> None]
    /\ ak_now = 0
    /\ ak_req = [r \in AKRequests |-> Idle]
    /\ ak_businesses = 0
    /\ ak_last = NoCall

InitKeys ==
    /\ ak_key \in AKInitialKeys
    /\ ak_now = 0
    /\ ak_req = [r \in AKRequests |-> Idle]
    /\ ak_businesses = 0
    /\ ak_last = NoCall

\* The other classes' instances.
notKeys == <<focus, hybridVars, cfVars, rkVars, vsVars, cbVars, auVars, coVars, osVars, wsVars>>

\* datetime.utcnow() moves on.
AKTick ==
    /\ ak_now < MaxNow
    /\ ak_now' = ak_now + 1
    /\ UNCHANGED <<ak_key, ak_req, ak_businesses, ak_last, notKeys>>

\* register_vendor, lines 91-104: the key is selected by its text among the
\* active keys and its count is compared with its limit; valid_until is not
\* looked at.
RegisterVendorValidate(r) ==
    /\ ak_req[r] = Idle
    /\ IF ~ak_key.is_active
       THEN /\ ak_last' = [op |-> "register_vendor", req |-> r,
                           raised |-> "Invalid or expired access key"]
            /\ UNCHANGED ak_req
       ELSE IF ak_key.used_count >= ak_key.max_businesses
       THEN /\ ak_last' = [op |-> "register_vendor", req |-> r,
                           raised |-> "Access key usage limit reached"]
            /\ UNCHANGED ak_req
       ELSE /\ ak_req' = [ak_req EXCEPT ![r] = [pc |-> "register", loaded |-> ak_key]]
            /\ UNCHANGED ak_last
    /\ UNCHANGED <<ak_key, ak_now, ak_businesses, notKeys>>

\* register_vendor, lines 106-137: the user is committed (register_user),
\* the business is added, the loaded count plus one is written to the key
\* and both are committed.
RegisterVendorCommit(r) ==
    /\ ak_req[r].pc = "register"
    /\ LET loaded == ak_req[r].loaded
           object == [loaded EXCEPT !.used_count = @ + 1]
       IN  ak_key' = Flush(ak_key, loaded, object)
    /\ ak_businesses' = ak_businesses + 1
    /\ ak_req' = [ak_req EXCEPT ![r] = Idle]
    /\ ak_last' = [op |-> "register_vendor", req |-> r, raised |-> ""]
    /\ UNCHANGED <<ak_now, notKeys>>

\* use_access_key, lines 108-118: the key is selected by id and its count
\* compared with its limit.
UseAccessKeyRead(r) ==
    /\ ak_req[r] = Idle
    /\ IF ak_key.used_count >= ak_key.max_businesses
       THEN /\ ak_last' = [op |-> "use_access_key", req |-> r, result |-> FALSE]
            /\ UNCHANGED ak_req
       ELSE /\ ak_req' = [ak_req EXCEPT ![r] = [pc |-> "use", loaded |-> ak_key]]
            /\ UNCHANGED ak_last
    /\ UNCHANGED <<ak_key, ak_now, ak_businesses, notKeys>>

\* use_access_key, lines 120-130: the count goes up by one, the key is
\* deactivated at its limit, and the object is committed.
UseAccessKeyCommit(r) ==
    /\ ak_req[r].pc = "use"
    /\ LET loaded == ak_req[r].loaded
           counted == [loaded EXCEPT !.used_count = @ + 1]
           object == IF counted.used_count >= counted.max_businesses
                     THEN [counted EXCEPT !.is_active = FALSE]
                     ELSE counted
       IN  ak_key' = Flush(ak_key, loaded, object)
    /\ ak_req' = [ak_req EXCEPT ![r] = Idle]
    /\ ak_last' = [op |-> "use_access_key", req |-> r, result |-> TRUE]
    /\ UNCHANGED <<ak_now, ak_businesses, notKeys>>

\* update_access_key, lines 261-279: the key is selected and a new limit is
\* compared with the count as loaded.
UpdateAccessKeyRead(r, args) ==
    /\ ak_req[r] = Idle
    /\ IF args.max_businesses # None
          /\ args.max_businesses.some < ak_key.used_count
       THEN /\ ak_last' = [op |-> "update_access_key", req |-> r,
                           raised |-> "Cannot set max_businesses less than current usage"]
            /\ UNCHANGED ak_req
       ELSE /\ ak_req' = [ak_req EXCEPT ![r] =
                            [pc |-> "update", loaded |-> ak_key, args |-> args]]
            /\ UNCHANGED ak_last
    /\ UNCHANGED <<ak_key, ak_now, ak_businesses, notKeys>>

\* update_access_key, lines 276-287: the given fields are set and committed.
UpdateAccessKeyCommit(r) ==
    /\ ak_req[r].pc = "update"
    /\ LET loaded == ak_req[r].loaded
           args == ak_req[r].args
           object ==
               [max_businesses |-> IF args.max_businesses # None
                                   THEN args.max_businesses.some
                                   ELSE loaded.max_businesses,
                used_count |-> loaded.used_count,
                is_active |-> IF args.is_active # None
                              THEN args.is_active.some ELSE loaded.is_active,
                valid_until |-> IF args.valid_until # None
                                THEN args.valid_until ELSE loaded.valid_until]
       IN  ak_key' = Flush(ak_key, loaded, object)
    /\ ak_req' = [ak_req EXCEPT ![r] = Idle]
    /\ ak_last' = [op |-> "update_access_key", req |-> r, raised |-> ""]
    /\ UNCHANGED <<ak_now, ak_businesses, notKeys>>

\* revoke_access_key, lines 304-316: is_active is set to False and
\* committed.
RevokeAccessKey(r) ==
    /\ ak_req[r] = Idle
    /\ ak_key' = [ak_key EXCEPT !.is_active = FALSE]
    /\ ak_last' = [op |-> "revoke_access_key", req |-> r, result |-> TRUE]
    /\ UNCHANGED <<ak_now, ak_req, ak_businesses, notKeys>>

NextKeys ==
    \/ AKTick
    \/ \E r \in AKRequests : RegisterVendorValidate(r)
    \/ \E r \in AKRequests : RegisterVendorCommit(r)
    \/ \E r \in AKRequests : UseAccessKeyRead(r)
    \/ \E r \in AKRequests : UseAccessKeyCommit(r)
    \/ \E r \in AKRequests, a \in AKUpdates : UpdateAccessKeyRead(r, a)
    \/ \E r \in AKRequests : UpdateAccessKeyCommit(r)
    \/ \E r \in AKRequests : RevokeAccessKey(r)

\* The same with one request at a time.
NextKeysSequential ==
    \/ AKTick
    \/ RegisterVendorValidate("r1")
    \/ RegisterVendorCommit("r1")
    \/ UseAccessKeyRead("r1")
    \/ UseAccessKeyCommit("r1")
    \/ \E a \in AKUpdates : UpdateAccessKeyRead("r1", a)
    \/ UpdateAccessKeyCommit("r1")
    \/ RevokeAccessKey("r1")

(***************************************************************************)
(* The websocket connection registries: DeliveryBoyConnectionManager        *)
(* (delivery_boy_app/websocket_location.py), whose connect, disconnect and  *)
(* update_location are those of ConnectionManager                           *)
(* (app/routers/websocket_router.py) and which also keeps                   *)
(* order_connections.  The handlers run on one event loop; connect, the     *)
(* handling of one message and disconnect each change the registries        *)
(* without awaiting in between, so each is one step.                        *)
(***************************************************************************)
WSIds == {"d1", "d2"}
WSOrders == {"o1", "o2"}

\* The websockets clients open: two under the id d1, one under d2.
WSSockets == {<<"d1", 1>>, <<"d1", 2>>, <<"d2", 1>>}
IdOf(websocket) == websocket[1]

\* order_connections: a dict, kept in insertion order, of order_id -> set of
\* connection ids.
OrderKeys(conns) ==
    {conns[i].order_id : i \in 1..Len(conns)}
OrderIndex(conns, order_id) ==
    CHOOSE i \in 1..Len(conns) : conns[i].order_id = order_id
DelOrder(conns, order_id) ==
    SelectSeq(conns, LAMBDA e : e.order_id # order_id)

\* register_order_connection(order_id, connection_id), lines 74-78.
RegisterOrderConnection(conns, order_id, connection_id) ==
    LET made == IF order_id \notin OrderKeys(conns)
                THEN Append(conns,
                            [order_id |-> order_id, connections |-> {}])
                ELSE conns
        i == OrderIndex(made, order_id)
    IN  [made EXCEPT ![i].connections = @ \cup {connection_id}]

\* unregister_order_connection(order_id, connection_id), lines 80-85.
UnregisterOrderConnection(conns, order_id, connection_id) ==
    IF order_id \in OrderKeys(conns)
       /\ connection_id \in conns[OrderIndex(conns, order_id)].connections
    THEN LET i == OrderIndex(conns, order_id)
             removed == [conns EXCEPT ![i].connections = @ \ {connection_id}]
         IN  IF removed[i].connections = {}
             THEN DelOrder(removed, order_id)
             ELSE removed
    ELSE conns

\* The loop of disconnect, lines 33-38, over the items of the dict from
\* position i on: the id is removed from the sets that hold it; a set left
\* empty is deleted from the dict under iteration, and the iterator's next
\* step raises RuntimeError (dictionary changed size during iteration), with
\* the rest of the dict not visited.
RECURSIVE DisconnectLoop(_, _, _)
DisconnectLoop(conns, delivery_boy_id, i) ==
    IF i > Len(conns)
    THEN [order_connections |-> conns, raised |-> ""]
    ELSE IF delivery_boy_id \in conns[i].connections
    THEN LET removed == [conns EXCEPT
                            ![i].connections = @ \ {delivery_boy_id}]
         IN  IF removed[i].connections = {}
             THEN [order_connections |-> DelOrder(removed, removed[i].order_id),
                   raised |-> "RuntimeError"]
             ELSE DisconnectLoop(removed, delivery_boy_id, i + 1)
    ELSE DisconnectLoop(conns, delivery_boy_id, i + 1)

InitSockets ==
    /\ ws_socket = [s \in WSSockets |-> "new"]
    /\ active_connections = [d \in WSIds |-> None]
    /\ delivery_locations = {}
    /\ order_connections = <<>>
    /\ ws_assigning = {}
    /\ ws_last = NoCall

\* The other classes' instances.
notSockets == <<focus, hybridVars, cfVars, rkVars, vsVars, cbVars, auVars, coVars, osVars, akVars>>

\* connect(websocket, delivery_boy_id), lines 19-23: the socket is accepted
\* and stored under the id, over whatever was stored there.
WSConnect(websocket) ==
    /\ ws_socket[websocket] = "new"
    /\ ws_socket' = [ws_socket EXCEPT ![websocket] = "open"]
    /\ active_connections' = [active_connections EXCEPT ![IdOf(websocket)] = Some(websocket)]
    /\ ws_last' = [op |-> "connect", id |-> IdOf(websocket)]
    /\ UNCHANGED <<delivery_locations, order_connections, ws_assigning, notSockets>>

\* A location_update message with a location on an open socket (lines
\* 122-128): update_location stores it under the id of the handler.
WSLocationUpdate(websocket) ==
    /\ ws_socket[websocket] = "open"
    /\ delivery_locations' = delivery_locations \cup {IdOf(websocket)}
    /\ ws_last' = [op |-> "location_update", id |-> IdOf(websocket)]
    /\ UNCHANGED <<ws_socket, active_connections, order_connections, ws_assigning, notSockets>>

\* A register_order message with an order_id (lines 175-179).
WSRegisterOrder(websocket, order_id) ==
    /\ ws_socket[websocket] = "open"
    /\ order_connections' =
           RegisterOrderConnection(order_connections, order_id, IdOf(websocket))
    /\ ws_last' = [op |-> "register_order", id |-> IdOf(websocket)]
    /\ UNCHANGED <<ws_socket, active_connections, delivery_locations, ws_assigning, notSockets>>

\* An unregister_order message with an order_id (lines 187-191).
WSUnregisterOrder(websocket, order_id) ==
    /\ ws_socket[websocket] = "open"
    /\ order_connections' =
           UnregisterOrderConnection(order_connections, order_id, IdOf(websocket))
    /\ ws_last' = [op |-> "unregister_order", id |-> IdOf(websocket)]
    /\ UNCHANGED <<ws_socket, active_connections, delivery_locations, ws_assigning, notSockets>>

\* broadcast_order_assignment(order_id, delivery_boy_id), lines 270-277: a
\* connected delivery boy is sent the assignment; the send is awaited.
WSOrderAssignmentSend(order_id, delivery_boy_id) ==
    /\ active_connections[delivery_boy_id] # None
    /\ <<order_id, delivery_boy_id>> \notin ws_assigning
    /\ ws_assigning' = ws_assigning \cup {<<order_id, delivery_boy_id>>}
    /\ UNCHANGED <<ws_socket, active_connections, delivery_locations,
                   order_connections, ws_last, notSockets>>

\* broadcast_order_assignment, lines 279-280: after the send, the delivery
\* boy is registered for the order.
WSOrderAssignmentRegister(order_id, delivery_boy_id) ==
    /\ <<order_id, delivery_boy_id>> \in ws_assigning
    /\ ws_assigning' = ws_assigning \ {<<order_id, delivery_boy_id>>}
    /\ order_connections' =
           RegisterOrderConnection(order_connections, order_id, delivery_boy_id)
    /\ ws_last' = [op |-> "order_assignment", id |-> delivery_boy_id]
    /\ UNCHANGED <<ws_socket, active_connections, delivery_locations, notSockets>>

\* The socket closes: receive_json raises in its handler, which calls
\* disconnect(delivery_boy_id) (lines 25-40 and 209-215): the entries under
\* the id are deleted, whichever socket they were made for, and the loop
\* over order_connections runs.
WSDisconnect(websocket) ==
    /\ ws_socket[websocket] = "open"
    /\ ws_socket' = [ws_socket EXCEPT ![websocket] = "closed"]
    /\ active_connections' = [active_connections EXCEPT ![IdOf(websocket)] = None]
    /\ delivery_locations' = delivery_locations \ {IdOf(websocket)}
    /\ LET out == DisconnectLoop(order_connections, IdOf(websocket), 1)
       IN  /\ order_connections' = out.order_connections
           /\ ws_last' = [op |-> "disconnect", id |-> IdOf(websocket),
                          raised |-> out.raised]
    /\ UNCHANGED <<ws_assigning, notSockets>>

NextSockets ==
    \/ \E s \in WSSockets : WSConnect(s)
    \/ \E s \in WSSockets : WSLocationUpdate(s)
    \/ \E s \in WSSockets, o \in WSOrders : WSRegisterOrder(s, o)
    \/ \E s \in WSSockets, o \in WSOrders : WSUnregisterOrder(s, o)
    \/ \E o \in WSOrders, d \in WSIds : WSOrderAssignmentSend(o, d)
    \/ \E o \in WSOrders, d \in WSIds : WSOrderAssignmentRegister(o, d)
    \/ \E s \in WSSockets : WSDisconnect(s)

(***************************************************************************)
(* Specifications: one per class, each with the other classes idle, and    *)
(* one over all the classes that answer lookups by id.                     *)
(***************************************************************************)
\* The merge stage before any call, with no inputs.
InitRankIdle ==
    /\ rk_cf = <<>> /\ rk_cb = <<>> /\ rk_n = 0 /\ rk_context = None /\ rk_hour = 0
    /\ rk_merged = <<>> /\ rk_unique = <<>> /\ rk_out = <<>> /\ rk_done = FALSE

InitAll == InitHybrid /\ InitCF /\ InitRankIdle /\ InitVSIdle /\ InitCB /\ InitAuth /\ InitCollabIdle /\ InitOrdersIdle /\ InitKeysIdle /\ InitSockets

InitRankOnly == focus = "rank" /\ InitHybrid /\ InitCF /\ InitRank /\ InitVSIdle /\ InitCB /\ InitAuth /\ InitCollabIdle /\ InitOrdersIdle /\ InitKeysIdle /\ InitSockets

SpecRank == InitRankOnly /\ [][NextRank]_vars

InitHybridOnly == focus = "hybrid" /\ InitAll

SpecHybrid == InitHybridOnly /\ [][NextHybrid]_vars

InitCFOnly == focus = "cf" /\ InitAll

SpecCF == InitCFOnly /\ [][NextCF]_vars

InitVSOnly == focus = "vs" /\ InitHybrid /\ InitCF /\ InitRankIdle /\ InitVS /\ InitCB /\ InitAuth /\ InitCollabIdle /\ InitOrdersIdle /\ InitKeysIdle /\ InitSockets

SpecVS == InitVSOnly /\ [][NextVS]_vars

SpecVSFiles == InitVSOnly /\ [][NextVSFiles]_vars

SpecVSOps == InitVSOnly /\ [][NextVSOps]_vars

SpecVSHybrid == InitVSOnly /\ [][NextVSHybrid]_vars

InitCBOnly == focus = "cb" /\ InitAll

SpecCB == InitCBOnly /\ [][NextCB]_vars

SpecCBProfile == InitCBOnly /\ [][NextCBProfile]_vars

\* The classes that answer lookups by id, one of them in use per behaviour.
InitLookup == InitHybridOnly \/ InitCFOnly \/ InitVSOnly \/ InitCBOnly

LookupHybrid == focus = "hybrid" /\ NextHybrid
LookupCF == focus = "cf" /\ NextCF
LookupVS == focus = "vs" /\ NextVS
LookupCB == focus = "cb" /\ NextCB

NextLookup == LookupHybrid \/ LookupCF \/ LookupVS \/ LookupCB

SpecLookup == InitLookup /\ [][NextLookup]_vars

\* fit with degenerate input, for the classes that have a fit.
\* An interaction snapshot whose ratings are all 0: the pivot is an all-zero
\* matrix.
InterZero == [rows |-> {<<"u1", "i1">>, <<"u2", "i2">>},
              rating |-> [p \in {<<"u1", "i1">>, <<"u2", "i2">>} |-> 0]]

\* The (interactions, items) pairs passed to HybridRecommender.fit: all-zero
\* ratings, no interactions, no catalog, and a regular pair.
DegenerateFits == {[inter |-> InterZero, items |-> CatalogA],
                   [inter |-> InterEmpty, items |-> CatalogA],
                   [inter |-> InterA, items |-> CatalogEmpty],
                   [inter |-> InterA, items |-> CatalogA]}

FitHybrid ==
    /\ focus = "hybrid"
    /\ \/ \E t \in FitThreads, a \in DegenerateFits : FitCall(t, a)
       \/ \E t \in FitThreads : FitBuildMatrix(t)
       \/ \E t \in FitThreads : FitUserSimilarity(t)
       \/ \E t \in FitThreads : FitItemSimilarity(t)
       \/ \E t \in FitThreads : FitItemFeatures(t)

FitCF ==
    /\ focus = "cf"
    /\ \/ \E users \in CFUserLists, items \in CFItemLists : CFFit(users, items)
       \/ CFReturn

FitCB ==
    /\ focus = "cb"
    /\ \/ \E items \in CBCatalogs : CBFit(items)
       \/ CBReturn

InitFit == InitHybridOnly \/ InitCFOnly \/ InitCBOnly

NextFit == FitHybrid \/ FitCF \/ FitCB

SpecFit == InitFit /\ [][NextFit]_vars

InitAuthOnly == focus = "auth" /\ InitAll

SpecAuth == InitAuthOnly /\ [][NextAuth]_vars

InitCollabOnly ==
    focus = "collab" /\ InitHybrid /\ InitCF /\ InitRankIdle /\ InitVSIdle /\ InitCB /\ InitAuth /\ InitCollab /\ InitOrdersIdle /\ InitKeysIdle /\ InitSockets

SpecCollab == InitCollabOnly /\ [][NextCollab]_vars

InitOrdersOnly == focus = "orders" /\ InitAll

SpecOrders == InitOrdersOnly /\ [][NextOrders]_vars

SpecOrdersSequential == InitOrdersOnly /\ [][NextOrdersSequential]_vars

InitKeysOnly ==
    focus = "keys" /\ InitHybrid /\ InitCF /\ InitRankIdle /\ InitVSIdle /\ InitCB /\ InitAuth /\ InitCollabIdle /\ InitOrdersIdle /\ InitKeys /\ InitSockets

SpecKeys == InitKeysOnly /\ [][NextKeys]_vars

SpecKeysSequential == InitKeysOnly /\ [][NextKeysSequential]_vars

InitSocketsOnly == focus = "sockets" /\ InitAll

SpecSockets == InitSocketsOnly /\ [][NextSockets]_vars

(***************************************************************************)
(* Properties of HybridRecommender, checked under SpecHybrid.              *)
(***************************************************************************)
\* C1: a recommend call that ends while no fit has yet returned ends with an
\* explicit "not ready" error: it returns no list and raises nothing else.
C1_UnfittedRecommendIsNotReady ==
    (rec_pc = "done" /\ fit_log = {}) => rec_status = "NotReady"

\* The parts of the model one recommend call has read all belong to one fit:
\* it saw one matrix, and the similarity matrices it saw were computed from it.
ObservationCoherent ==
    /\ Cardinality(rec_obs.ms) <= 1
    /\ \A m \in rec_obs.ms :
          /\ rec_obs.usim \in {None, UserCosine(m)}
          /\ rec_obs.isim \in {None, ItemCosine(m)}

\* C2: while one fit replaces a fitted model (no fit raises, no two fits
\* overlap), a recommend call that started on the fitted model reads either the
\* old matrix and similarities or the new ones, never a mix.
C2_RecommendSeesOldOrNew ==
    (rec_pc = "done" /\ ~rec_unfitted /\ ~fit_raised /\ ~overlapped) => ObservationCoherent

FitActive == {t \in FitThreads : fit_pc[t] # "idle"}

\* The stored model is the complete result of the fit call with arguments a.
ModelIsResultOf(a) ==
    /\ user_item_matrix = BuildUserItemMatrix(a.inter)
    /\ user_similarity = UserCosine(user_item_matrix)
    /\ item_similarity = ItemCosine(user_item_matrix)
    /\ item_features = ExtractItemFeatures(a.items)

\* C3: two fit calls never overlap, and once the fits have returned (none of
\* them raising) the model is the complete result of one of them.
C3_FitSerialized ==
    /\ Cardinality(FitActive) <= 1
    /\ (FitActive = {} /\ ~fit_raised /\ fit_log # {}) => \E a \in fit_log : ModelIsResultOf(a)

\* The second half of C3 alone: what two overlapping fits leave behind.
C3_FinalModelOfOneFit ==
    (FitActive = {} /\ ~fit_raised /\ fit_log # {}) => \E a \in fit_log : ModelIsResultOf(a)

(***************************************************************************)
(* Properties of CollaborativeFiltering, checked under SpecCF.             *)
(* cf_fitted: the last fit call returned, so the instance holds a fitted   *)
(* model.                                                                  *)
(***************************************************************************)
CFStored == <<cf_user_ids, cf_item_ids, cf_user_factors, cf_item_factors>>

\* The id lists and the factor arrays are all unset, or have one row per id.
CFSizesMatch ==
    IF cf_user_factors = None \/ cf_user_ids = None
    THEN CFStored = <<None, None, None, None>>
    ELSE /\ Len(cf_user_ids.some) = Len(cf_user_factors.some)
         /\ Len(cf_item_ids.some) = Len(cf_item_factors.some)

\* C4: after a fit call that raised, the instance holds what it held before the
\* call (the previous model, or nothing), and at all times the id lists and the
\* factor arrays have matching sizes.
C4_FailedFitKeepsPreviousModel ==
    /\ (cf_call.op = "fit" /\ cf_call.status # "ok") => CFStored = cf_call.before
    /\ CFSizesMatch

\* C7: on a fitted model recommend_for_user returns at most n entries, none of
\* them excluded, scores non-increasing, and [] for a user id that was not fitted.
C7_RecommendForUserBounded ==
    (cf_call.op = "recommend_for_user" /\ cf_fitted) =>
        /\ cf_call.status = "ok" =>
              /\ Len(cf_call.result) <= cf_call.n
              /\ \A i \in 1..Len(cf_call.result) : cf_call.result[i].item_id \notin cf_call.exclude
              /\ \A i \in 1..(Len(cf_call.result) - 1) :
                    cf_call.result[i].score >= cf_call.result[i + 1].score
        /\ cf_call.user_id \notin Range(cf_user_ids.some) =>
              (cf_call.status = "ok" /\ cf_call.result = <<>>)

\* A known user, an excluded item that outranks a returned one, and n entries returned.
C7_Witness ==
    /\ cf_call.op = "recommend_for_user" /\ cf_fitted
    /\ cf_call.user_id \in Range(cf_user_ids.some)
    /\ cf_call.exclude = {"i1"} /\ Len(cf_item_ids.some) = 3
    /\ cf_call.status = "ok" /\ cf_call.n = 2 /\ Len(cf_call.result) = 2
    /\ cf_call.result[1].score > cf_call.result[2].score

\* C8: on a fitted model predict_rating of a known user and a known item is
\* their factors' dot product brought into 1..5 (1 below, 5 above, unchanged
\* between); with an unknown user or item it returns None.
C8_PredictRatingClamped ==
    (cf_call.op = "predict_rating" /\ cf_fitted) =>
        /\ cf_call.status = "ok"
        /\ IF /\ cf_call.user_id \in Range(cf_user_ids.some)
              /\ cf_call.item_id \in Range(cf_item_ids.some)
           THEN LET raw == Dot(cf_user_factors.some[IndexOf(cf_user_ids.some, cf_call.user_id)],
                               cf_item_factors.some[IndexOf(cf_item_ids.some, cf_call.item_id)])
                IN  /\ cf_call.result # None
                    /\ cf_call.result.some \in 1..5
                    /\ raw < 1 => cf_call.result.some = 1
                    /\ raw > 5 => cf_call.result.some = 5
                    /\ raw \in 1..5 => cf_call.result.some = raw
           ELSE cf_call.result = None

\* A prediction above the range, returned as 5.
C8_Witness ==
    /\ cf_call.op = "predict_rating" /\ cf_fitted /\ cf_call.status = "ok"
    /\ cf_call.user_id \in Range(cf_user_ids.some)
    /\ cf_call.item_id \in Range(cf_item_ids.some)
    /\ Dot(cf_user_factors.some[IndexOf(cf_user_ids.some, cf_call.user_id)],
           cf_item_factors.some[IndexOf(cf_item_ids.some, cf_call.item_id)]) > 5
    /\ cf_call.result = Some(5)

(***************************************************************************)
(* Properties of the merge and ranking of recommend, checked under         *)
(* SpecRank.                                                               *)
(***************************************************************************)
ItemIdsOf(list) == {list[i].item_id : i \in 1..Len(list)}

\* The scores the streams proposed for an item id.
ProposedScores(item_id) ==
    {rk_merged[i].score : i \in {i \in 1..Len(rk_merged) : rk_merged[i].item_id = item_id}}

BestScore(item_id) == CHOOSE x \in ProposedScores(item_id) : \A y \in ProposedScores(item_id) : y <= x

\* No item id twice, and each entry carries the best score proposed for its id.
UniqueWithBestScore(list) ==
    /\ \A i, j \in 1..Len(list) : list[i].item_id = list[j].item_id => i = j
    /\ \A i \in 1..Len(list) : list[i].score = BestScore(list[i].item_id)

\* C5: in the list recommend returns, and in the list _deduplicate_and_rank
\* returns for the merged candidates, every item id appears at most once (in the
\* latter exactly once) and carries the highest score any stream proposed for it.
C5_DedupKeepsHighestScore ==
    rk_done =>
        /\ UniqueWithBestScore(rk_unique)
        /\ ItemIdsOf(rk_unique) = ItemIdsOf(rk_merged)
        /\ UniqueWithBestScore(rk_out)

\* One item id proposed by two streams with scores 0.4 and 0.9, returned once with 0.9.
C5_Witness ==
    /\ rk_done
    /\ \E i, j \in 1..Len(rk_merged) :
          /\ rk_merged[i].item_id = rk_merged[j].item_id
          /\ rk_merged[i].type # rk_merged[j].type
          /\ rk_merged[i].score = 4 /\ rk_merged[j].score = 9
          /\ ProposedScores(rk_merged[i].item_id) = {4, 9}
          /\ \E k \in 1..Len(rk_out) :
                rk_out[k].item_id = rk_merged[i].item_id /\ rk_out[k].score = 9

\* C6: the list recommend returns is in non-increasing score order, has at most
\* n entries (n of them when that many item ids were proposed), and no item id
\* left out has a best score above that of a returned entry.
C6_TopNByScore ==
    rk_done =>
        /\ Len(rk_out) <= rk_n
        /\ Len(rk_out) = (IF Cardinality(ItemIdsOf(rk_merged)) < rk_n
                           THEN Cardinality(ItemIdsOf(rk_merged)) ELSE rk_n)
        /\ \A i \in 1..(Len(rk_out) - 1) : rk_out[i].score >= rk_out[i + 1].score
        /\ \A id \in ItemIdsOf(rk_merged) \ ItemIdsOf(rk_out) :
              \A k \in 1..Len(rk_out) : BestScore(id) <= rk_out[k].score

\* More item ids proposed than asked for, in an order that is not the score
\* order: n entries returned, a lower-scored item id left out.
C6_Witness ==
    /\ rk_done /\ rk_n >= 2 /\ Len(rk_out) = rk_n
    /\ Cardinality(ItemIdsOf(rk_merged)) > rk_n
    /\ \E i \in 1..(Len(rk_merged) - 1) : rk_merged[i].score < rk_merged[i + 1].score
    /\ \E id \in ItemIdsOf(rk_merged) \ ItemIdsOf(rk_out) : BestScore(id) < rk_out[rk_n].score

(***************************************************************************)
(* Properties of the lookups by id, checked under SpecLookup, and of the   *)
(* VectorStore files, checked under SpecVS.                                *)
(***************************************************************************)
\* The users of the matrix fit builds from interactions a.
UsersOfInput(a) == Range(BuildUserItemMatrix(a.inter).index)

\* A lookup of CollaborativeFiltering has ended, and its id is not in the
\* id list of the fitted model.
CFUnknownLookup ==
    /\ cf_fitted
    /\ \/ cf_call.op = "recommend_for_user" /\ cf_call.user_id \notin Range(cf_user_ids.some)
       \/ cf_call.op = "get_similar_users" /\ cf_call.id \notin Range(cf_user_ids.some)
       \/ cf_call.op = "get_similar_items" /\ cf_call.id \notin Range(cf_item_ids.some)

\* A lookup of ContentBasedRecommender has ended, and an id of it is not in
\* the id list of the fitted model.
CBUnknownLookup ==
    /\ cb_fitted
    /\ cb_call.op \in {"recommend_similar_items", "get_item_features", "explain_recommendation"}
    /\ ~cb_call.known

\* VectorStore.get_similar_items has ended, and its id is not in the store.
VSUnknownLookup == vs_call.op = "get_similar_items" /\ ~vs_call.known

\* HybridRecommender.recommend, called after a fit had returned, has ended,
\* and its user is in no interaction snapshot.
HybridUnknownLookup ==
    /\ rec_pc = "done"
    /\ ~rec_unfitted
    /\ \A a \in FitInputs : rec_user \notin UsersOfInput(a)

\* C9: a lookup on a fitted model with an id the model does not hold returns
\* an empty result and raises nothing: the three lookups of
\* CollaborativeFiltering, the three of ContentBasedRecommender,
\* VectorStore.get_similar_items, and the collaborative and content streams of
\* HybridRecommender.recommend (neither enters its "user is known" branch).
C9_UnknownIdGivesEmpty ==
    /\ CFUnknownLookup => cf_call.status = "ok" /\ cf_call.result = <<>>
    /\ CBUnknownLookup =>
           /\ cb_call.status = "ok"
           /\ IF cb_call.op = "explain_recommendation"
              THEN cb_call.result.keys = {}
              ELSE cb_call.result = <<>>
    /\ VSUnknownLookup => vs_call.status = "ok" /\ vs_call.result = <<>>
    /\ HybridUnknownLookup =>
           rec_status = "ok" /\ ~rec_obs.cf_guard /\ ~rec_obs.cb_guard

\* A store that holds items has answered get_similar_items for an id it does
\* not hold.
C9_Witness ==
    /\ VSUnknownLookup
    /\ vs_item_ids # <<>>
    /\ vs_call.status = "ok"

\* The other three classes have answered a lookup for an unknown id.
C9_WitnessCF == CFUnknownLookup /\ cf_call.op = "get_similar_items"
C9_WitnessCB == CBUnknownLookup /\ cb_call.op = "explain_recommendation"
C9_WitnessHybrid == HybridUnknownLookup /\ rec_status = "ok"

\* C10: a load that follows a save returns True and leaves the store with the
\* attributes the saved store had - ids in order, metadata, vectors, index -
\* so that search_similar answers every query as the saved store did.
C10_SaveLoadRoundTrip ==
    (vs_call.op = "load" /\ vs_saved # None) =>
        /\ vs_call.result = TRUE
        /\ VSState = vs_saved.some
        /\ \A q \in VSVectors, k \in VSKs, r \in VSFilters :
               SearchSimilar(VSState, q, k, r) = SearchSimilar(vs_saved.some, q, k, r)

\* The same for the stores saved with an index, which build_index or add_items
\* had set.
SaveLoadRoundTripWithIndex ==
    (vs_call.op = "load" /\ vs_saved # None /\ vs_saved.some.index # None) =>
        /\ vs_call.result = TRUE
        /\ VSState = vs_saved.some

(***************************************************************************)
(* Properties of VectorStore.load with file faults, checked under          *)
(* SpecVSFiles.                                                            *)
(***************************************************************************)
\* C11: load raises nothing and answers with a boolean; it answers False when
\* the side-table file or the index file is missing or unreadable, and True
\* only when both were read, the store then holding the side tables of the
\* one and the index of the other.
C11_LoadReportsFailure ==
    vs_call.op = "load" =>
        /\ vs_call.status = "ok"
        /\ vs_call.result \in BOOLEAN
        /\ vs_call.result = (Readable(fs_pkl) /\ Readable(fs_index))
        /\ vs_call.result =>
               /\ vs_index = fs_index
               /\ [dimension |-> vs_dimension, item_ids |-> vs_item_ids,
                   item_vectors |-> vs_item_vectors, item_metadata |-> vs_item_metadata,
                   is_trained |-> vs_is_trained] = fs_pkl.some

\* load has answered False with the side-table file readable and the index
\* file damaged.
C11_Witness ==
    /\ vs_call.op = "load"
    /\ vs_call.result = FALSE
    /\ Readable(fs_pkl)
    /\ fs_index = Corrupt

\* load has answered False with the side-table file missing, and has answered
\* True.
C11_WitnessMissingPkl == vs_call.op = "load" /\ fs_pkl = None /\ fs_index # None
C11_WitnessLoaded == vs_call.op = "load" /\ vs_call.result = TRUE /\ vs_item_ids # <<>>

\* C12: a call of add_items, build_index, search_similar or batch_search with
\* a vector whose length is not the store's dimension ends with an error, and
\* after the rejected call the store's attributes (ids, vectors, metadata,
\* index) are those it had before the call.
C12_MismatchRejected ==
    /\ (/\ vs_call.op \in {"build_index", "add_items", "search_similar", "batch_search"}
        /\ vs_call.mismatch)
       => vs_call.status # "ok"
    /\ (/\ vs_call.op \in {"build_index", "add_items"}
        /\ vs_call.mismatch
        /\ vs_call.status # "ok")
       => VSState = vs_call.before

\* The part of C12 about the outcome alone: a mismatched vector ends the call
\* with an error.
MismatchRaises ==
    (/\ vs_call.op \in {"build_index", "add_items", "search_similar", "batch_search"}
     /\ vs_call.mismatch)
    => vs_call.status # "ok"

\* The part of C12 about the store: a rejected build_index or add_items
\* leaves the attributes as they were.
RejectedLeavesStore ==
    (/\ vs_call.op \in {"build_index", "add_items"}
     /\ vs_call.mismatch
     /\ vs_call.status # "ok")
    => VSState = vs_call.before

\* A matrix with no row, no column, or no entry other than 0.
DegenerateMatrix(m) ==
    \/ Len(m.index) = 0
    \/ Len(m.columns) = 0
    \/ \A p \in DOMAIN m.val : m.val[p] = 0

\* C13: no fit with degenerate input completes: every HybridRecommender.fit
\* that returned was given interactions whose matrix has rows, columns and a
\* non-zero entry, and a catalog with items; a CollaborativeFiltering.fit or
\* ContentBasedRecommender.fit that returned was given rows, columns, items.
C13_DegenerateFitFails ==
    /\ \A a \in fit_log :
          /\ ~DegenerateMatrix(BuildUserItemMatrix(a.inter))
          /\ a.items # CatalogEmpty
    /\ (cf_call.op = "fit" /\ cf_call.status = "ok")
       => Len(cf_user_ids.some) > 0 /\ Len(cf_item_ids.some) > 0
    /\ (cb_call.op = "fit" /\ cb_call.status = "ok") => Len(cb_item_ids.some) > 0

\* The part of C13 that holds: fit with no interaction, no row, no column or no
\* catalog item raises, as long as no two fits overlapped.
EmptyInputFitRaises ==
    /\ ~overlapped => \A a \in fit_log :
          /\ a.inter # InterEmpty
          /\ a.items # CatalogEmpty
    /\ (cf_call.op = "fit" /\ cf_call.status = "ok")
       => Len(cf_user_ids.some) > 0 /\ Len(cf_item_ids.some) > 0
    /\ (cb_call.op = "fit" /\ cb_call.status = "ok") => Len(cb_item_ids.some) > 0

\* A step of a read operation: a step of recommend, or the call of a lookup,
\* a search or a prediction.
ReadStep ==
    \/ rec_pc' # rec_pc
    \/ /\ cf_call = NoCall
       /\ cf_call'.op \in {"recommend_for_user", "predict_rating",
                           "get_similar_users", "get_similar_items"}
    \/ /\ vs_call = NoCall
       /\ vs_call'.op \in {"search_similar", "get_similar_items", "batch_search"}
    \/ /\ cb_call = NoCall
       /\ cb_call'.op \in {"recommend_similar_items", "get_item_features",
                           "explain_recommendation"}

\* C14: a step of a read operation (recommend, the similar-item and
\* similar-user lookups, search, predict_rating) changes nothing of the fitted
\* models and nothing of the VectorStore or its files.
C14_ReadsLeaveStateUnchanged ==
    [][ReadStep => UNCHANGED <<hybridModel, cfModel, cf_fitted, vsStore, vsFiles,
                               cbModel, cb_fitted>>]_vars

\* A search has returned items of a store that holds some.
C14_Witness ==
    /\ vs_call.op = "search_similar"
    /\ vs_call.status = "ok"
    /\ vs_call.result # <<>>

C14_WitnessPredict ==
    cf_call.op = "predict_rating" /\ cf_call.status = "ok" /\ cf_call.result # None

C14_WitnessRecommend == rec_pc = "done" /\ rec_status = "ok" /\ user_item_matrix # None

C14_WitnessSimilarItems ==
    cb_call.op = "recommend_similar_items" /\ cb_call.status = "ok" /\ cb_call.result # <<>>

\* C15: no id occurs twice in the store's item_ids.
C15_IdsUnique ==
    \A i, j \in 1..Len(vs_item_ids) : vs_item_ids[i] = vs_item_ids[j] => i = j

\* C16: a login of a registered, active, unblocked user with the password of
\* the registration is answered 200 with tokens; a login with a phone that was
\* never registered or with a wrong password is answered 401 without tokens
\* (a request the schema refuses is not a login attempt).
C16_LoginIssuesTokens ==
    (au_call.op = "login" /\ au_call.accepted) =>
        /\ (au_call.registered /\ au_call.matches /\ au_call.active /\ ~au_call.blocked)
           => (au_call.status = 200 /\ au_call.tokens)
        /\ (~au_call.registered \/ ~au_call.matches)
           => (au_call.status = 401 /\ ~au_call.tokens)

\* What login keeps of C16: tokens are never issued to an unknown phone, a
\* wrong password, a deactivated or a blocked user; the answer is 401, or 422
\* when the schema refuses the request.
LoginRejectsInvalid ==
    (/\ au_call.op = "login"
     /\ (~au_call.registered \/ ~au_call.matches \/ ~au_call.active \/ au_call.blocked))
    => (~au_call.tokens /\ au_call.status = IF au_call.accepted THEN 401 ELSE 422)

\* The source of the time candidate of hour h's bucket.
BucketSource(h) ==
    IF 6 <= h /\ h < 11 THEN "time_morning"
    ELSE IF 11 <= h /\ h < 16 THEN "time_afternoon"
    ELSE IF 16 <= h /\ h < 22 THEN "time_evening"
    ELSE "time_late_night"

\* The request carries a weather tag.
WeatherTagGiven == rk_context # None /\ rk_context.weather # "-"

\* The candidates of the context stream among the merged candidates, by the
\* rule they come from.
TimeCandidates ==
    SelectSeq(rk_merged, LAMBDA r : r.type = "context" /\ r.source \notin {"weather_rainy", "weather_hot"})
WeatherCandidates ==
    SelectSeq(rk_merged, LAMBDA r : r.type = "context" /\ r.source \in {"weather_rainy", "weather_hot"})

\* C17: recommend gets from the context stream exactly one time candidate, that
\* of the bucket of the hour, and one weather candidate exactly when a
\* weather tag is given, whatever else the context holds.
C17_ContextStream ==
    rk_done =>
        /\ Len(TimeCandidates) = 1
        /\ TimeCandidates[1].source = BucketSource(rk_hour)
        /\ Len(WeatherCandidates) = (IF WeatherTagGiven THEN 1 ELSE 0)

\* What holds of the context stream: given a context, an hour from 6 to 21
\* gives the one candidate of its bucket, and a weather candidate is there
\* exactly when the tag is "rainy" or "hot".
ContextStreamWithContext ==
    (rk_done /\ rk_context # None) =>
        /\ Len(TimeCandidates) = (IF 6 <= rk_hour /\ rk_hour < 22 THEN 1 ELSE 0)
        /\ \A i \in 1..Len(TimeCandidates) : TimeCandidates[i].source = BucketSource(rk_hour)
        /\ Len(WeatherCandidates) = (IF WeatherTagGiven THEN 1 ELSE 0)

\* The stream has run for a user of the matrix.
CollabRan == co_done /\ co_user \in Range(co_matrix.index)

\* Position of the target user in the index, and its similarity to each user.
CollabTargetIdx == IndexOf(co_matrix.index, co_user)
CollabSims == UserSimilarityRow(co_matrix, CollabTargetIdx)

\* C18: the neighbours of the collaborative stream are the (up to) 5 users
\* most similar to the target, the target left out: the target is never a
\* neighbour, and no other user is more similar than a chosen neighbour
\* without being chosen too.
C18_NeighboursMostSimilar ==
    CollabRan =>
        /\ CollabTargetIdx \notin Range(co_similar)
        /\ \A j \in 1..Len(co_matrix.index) :
              (j # CollabTargetIdx /\ j \notin Range(co_similar)) =>
                  \A k \in Range(co_similar) : CosLeq(CollabSims[j], CollabSims[k])

\* What holds of the neighbours: they are different users, five of them or
\* every user but one, in non-increasing similarity, and the one user left
\* out is at least as similar to the target as each of them.
NeighboursAllButFirst ==
    CollabRan =>
        /\ Len(co_similar) = (IF Len(co_matrix.index) - 1 < 5 THEN Len(co_matrix.index) - 1 ELSE 5)
        /\ \A a, b \in 1..Len(co_similar) : a < b =>
              /\ co_similar[a] # co_similar[b]
              /\ CosLeq(CollabSims[co_similar[b]], CollabSims[co_similar[a]])
        /\ Len(co_matrix.index) <= 6 =>
              \A j \in 1..Len(co_matrix.index) : j \notin Range(co_similar) =>
                  \A k \in Range(co_similar) : CosLeq(CollabSims[k], CollabSims[j])

\* C19: every candidate of the collaborative stream is an item its similar
\* user has rated (cell not 0) and the target has not (cell 0), scored with
\* that user's rating times the similarity of the two users, and a similar
\* user gives at most 5 candidates.
C19_CandidatesRatedBySimilarUser ==
    CollabRan =>
        /\ \A j \in 1..Len(co_recs) :
              LET rec == co_recs[j]
                  sim_user_id == rec.source[2]
              IN  /\ co_matrix.val[sim_user_id, rec.item_id] # 0
                  /\ co_matrix.val[co_user, rec.item_id] = 0
                  /\ rec.score = ScoreTimes(co_matrix.val[sim_user_id, rec.item_id],
                                            CollabSims[IndexOf(co_matrix.index, sim_user_id)])
        /\ \A u \in Range(co_matrix.index) :
              Cardinality({j \in 1..Len(co_recs) : co_recs[j].source[2] = u}) <= 5

\* What holds of the candidates: the target's cell is 0, the score is the
\* similar user's cell times the similarity, at most 5 per similar user.
CandidatesUnratedByTarget ==
    CollabRan =>
        /\ \A j \in 1..Len(co_recs) :
              LET rec == co_recs[j]
                  sim_user_id == rec.source[2]
              IN  /\ co_matrix.val[co_user, rec.item_id] = 0
                  /\ rec.score = ScoreTimes(co_matrix.val[sim_user_id, rec.item_id],
                                            CollabSims[IndexOf(co_matrix.index, sim_user_id)])
        /\ \A u \in Range(co_matrix.index) :
              Cardinality({j \in 1..Len(co_recs) : co_recs[j].source[2] = u}) <= 5

\* A call of get_similar_users / get_similar_items for a known id has ended
\* on the fitted model.
SimilarCallKnown ==
    /\ cf_fitted
    /\ cf_call.op \in {"get_similar_users", "get_similar_items"}
    /\ cf_call.id \in Range(IF cf_call.op = "get_similar_users" THEN cf_user_ids.some ELSE cf_item_ids.some)

\* The ids and the factor rows of the kind the call is about.
SimilarIds == IF cf_call.op = "get_similar_users" THEN cf_user_ids.some ELSE cf_item_ids.some
SimilarFactors == IF cf_call.op = "get_similar_users" THEN cf_user_factors.some ELSE cf_item_factors.some

\* Two cosines are the same number.
CosEq(x, y) == CosLeq(x, y) /\ CosLeq(y, x)

\* C20: on a fitted model, get_similar_users and get_similar_items for a known
\* id return at most n entries, each a different id other than the query, in
\* non-increasing order of the cosine between the query's factor row and the
\* entry's factor row of the same kind.
C20_SimilarTopN ==
    SimilarCallKnown =>
        /\ cf_call.status = "ok"
        /\ Len(cf_call.result) <= cf_call.n
        /\ \A a \in 1..Len(cf_call.result) :
              /\ cf_call.result[a].id # cf_call.id
              /\ CosEq(cf_call.result[a].similarity,
                       Cosine(SimilarFactors[IndexOf(SimilarIds, cf_call.id)],
                              SimilarFactors[IndexOf(SimilarIds, cf_call.result[a].id)]))
              /\ \A b \in 1..Len(cf_call.result) : a < b =>
                    /\ cf_call.result[a].id # cf_call.result[b].id
                    /\ CosLeq(cf_call.result[b].similarity, cf_call.result[a].similarity)

\* What holds of get_similar_users for a known id: it returns, with at most n
\* entries of different users in non-increasing order of the cosine between
\* the two users' factor rows.
SimilarUsersSorted ==
    (SimilarCallKnown /\ cf_call.op = "get_similar_users") =>
        /\ cf_call.status = "ok"
        /\ Len(cf_call.result) <= cf_call.n
        /\ \A a \in 1..Len(cf_call.result) :
              /\ CosEq(cf_call.result[a].similarity,
                       Cosine(cf_user_factors.some[IndexOf(cf_user_ids.some, cf_call.id)],
                              cf_user_factors.some[IndexOf(cf_user_ids.some, cf_call.result[a].id)]))
              /\ \A b \in 1..Len(cf_call.result) : a < b =>
                    /\ cf_call.result[a].id # cf_call.result[b].id
                    /\ CosLeq(cf_call.result[b].similarity, cf_call.result[a].similarity)

\* get_similar_users for a known id never gives that id back.
SimilarUsersNeverSelf ==
    (SimilarCallKnown /\ cf_call.op = "get_similar_users") =>
        \A a \in 1..Len(cf_call.result) : cf_call.result[a].id # cf_call.id

\* get_similar_items for a known id returns.
SimilarItemsReturns ==
    (SimilarCallKnown /\ cf_call.op = "get_similar_items") => cf_call.status = "ok"

\* Where get_similar_items returns, its similarities are the cosines of the
\* items' factor rows.
SimilarItemsOfItemRows ==
    (SimilarCallKnown /\ cf_call.op = "get_similar_items" /\ cf_call.status = "ok") =>
        \A a \in 1..Len(cf_call.result) :
            CosEq(cf_call.result[a].similarity,
                  Cosine(cf_item_factors.some[IndexOf(cf_item_ids.some, cf_call.id)],
                         cf_item_factors.some[IndexOf(cf_item_ids.some, cf_call.result[a].id)]))

\* get_similar_items(id, k, exclude_self=True) has ended for a stored id.
SimilarToStored ==
    vs_call.op = "get_similar_items" /\ vs_call.known /\ vs_call.exclude_self

\* The positions of the stored items other than id.
OtherPositions(id) == {p \in 1..Len(vs_item_ids) : vs_item_ids[p] # id}

\* The similarity of the stored vectors at positions p and q.
StoredSimilarity(p, q) == Dot(vs_item_vectors[p], vs_item_vectors[q])

\* result lists the k most similar stored items other than id, best first:
\* min(k, others) entries, each the id and the similarity of a position of its
\* own, in non-increasing similarity, no position left out being more similar.
MostSimilarOthers(result, id, k) ==
    /\ Len(vs_item_vectors) = Len(vs_item_ids)
    /\ LET idx == IndexOf(vs_item_ids, id)
           others == OtherPositions(id)
           n == IF k < Cardinality(others) THEN k ELSE Cardinality(others)
       IN  /\ Len(result) = n
           /\ \E ps \in [1..n -> others] :
                 /\ \A a, b \in 1..n : a < b =>
                       /\ ps[a] # ps[b]
                       /\ StoredSimilarity(ps[b], idx) <= StoredSimilarity(ps[a], idx)
                 /\ \A a \in 1..n :
                       /\ result[a].item_id = vs_item_ids[ps[a]]
                       /\ result[a].similarity = StoredSimilarity(ps[a], idx)
                 /\ \A p \in others : (\A a \in 1..n : ps[a] # p) =>
                       \A a \in 1..n : StoredSimilarity(p, idx) <= StoredSimilarity(ps[a], idx)

\* C21: get_similar_items(id, k, exclude_self=True) for a stored id returns at
\* most k results, none of them id, and they are the k most similar other
\* stored items, best first; for an id that is not stored it returns [].
C21_SimilarToReturnsNearestOthers ==
    /\ SimilarToStored =>
          /\ vs_call.status = "ok"
          /\ Len(vs_call.result) <= vs_call.k
          /\ \A a \in 1..Len(vs_call.result) : vs_call.result[a].item_id # vs_call.item_id
          /\ MostSimilarOthers(vs_call.result, vs_call.item_id, vs_call.k)
    /\ (vs_call.op = "get_similar_items" /\ ~vs_call.known) =>
          vs_call.status = "ok" /\ vs_call.result = <<>>

\* Every id is stored once and the index holds the stored vectors, one row
\* per id.
VSAligned ==
    /\ vs_index # None
    /\ vs_index.some.xb = vs_item_vectors
    /\ Len(vs_item_vectors) = Len(vs_item_ids)
    /\ \A a, b \in 1..Len(vs_item_ids) : a # b => vs_item_ids[a] # vs_item_ids[b]

\* What holds of get_similar_items: at most k results, none of them id, for
\* every store; the k most similar other items on a store that is aligned.
SimilarToOnAlignedStore ==
    SimilarToStored =>
        /\ Len(vs_call.result) <= vs_call.k
        /\ \A a \in 1..Len(vs_call.result) : vs_call.result[a].item_id # vs_call.item_id
        /\ VSAligned =>
              /\ vs_call.status = "ok"
              /\ MostSimilarOthers(vs_call.result, vs_call.item_id, vs_call.k)

\* search_similar has returned a list.
SearchReturned == vs_call.op = "search_similar" /\ vs_call.status = "ok"

\* The stored items, by position, that have a stored vector of the query's length.
StoredPositions(q) ==
    {p \in 1..Len(vs_item_ids) : p <= Len(vs_item_vectors) /\ Len(vs_item_vectors[p]) = Len(q)}

\* The similarity of the stored vector at position p to query q.
QuerySimilarity(p, q) == Dot(vs_item_vectors[p], NormalizeRow(q))

\* The stored item at position p is one of the k most similar to q whatever
\* the order of equal similarities: fewer than k others are as similar.
AmongTopK(p, q, k) ==
    Cardinality({r \in StoredPositions(q) \ {p} : QuerySimilarity(r, q) >= QuerySimilarity(p, q)}) < k

\* C22: search_similar(query, k, predicate) returns at most k results in
\* non-increasing similarity, each with the metadata stored for its id; with
\* a predicate every result satisfies it and no stored item among the top k
\* that satisfies it is left out.
C22_SearchTopKFiltered ==
    SearchReturned =>
        /\ Len(vs_call.result) <= vs_call.k
        /\ \A a \in 1..Len(vs_call.result) :
              /\ vs_call.result[a].metadata = DictGet(vs_item_metadata, vs_call.result[a].item_id)
              /\ vs_call.result[a].item_id \notin vs_call.rejected
              /\ \A b \in 1..Len(vs_call.result) : a < b =>
                    vs_call.result[b].similarity <= vs_call.result[a].similarity
        /\ \A p \in StoredPositions(vs_call.query) :
              (AmongTopK(p, vs_call.query, vs_call.k) /\ vs_item_ids[p] \notin vs_call.rejected) =>
                  \E a \in 1..Len(vs_call.result) : vs_call.result[a].item_id = vs_item_ids[p]

\* What holds of search_similar on every store: at most k results, in
\* non-increasing similarity, with the metadata of their ids, none of them
\* rejected by the predicate; and on an aligned store none of the top k that
\* the predicate accepts is left out.
SearchOrderedFiltered ==
    SearchReturned =>
        /\ Len(vs_call.result) <= vs_call.k
        /\ \A a \in 1..Len(vs_call.result) :
              /\ vs_call.result[a].metadata = DictGet(vs_item_metadata, vs_call.result[a].item_id)
              /\ vs_call.result[a].item_id \notin vs_call.rejected
              /\ \A b \in 1..Len(vs_call.result) : a < b =>
                    vs_call.result[b].similarity <= vs_call.result[a].similarity
        /\ VSAligned =>
              \A p \in StoredPositions(vs_call.query) :
                  (AmongTopK(p, vs_call.query, vs_call.k) /\ vs_item_ids[p] \notin vs_call.rejected) =>
                      \E a \in 1..Len(vs_call.result) : vs_call.result[a].item_id = vs_item_ids[p]

\* hybrid_search has returned a list.
HybridReturned == vs_call.op = "hybrid_search" /\ vs_call.status = "ok"

\* Text t is in one of the name, description and category of md, letter case
\* apart.
InSomeField(t, md) ==
    \E key \in {"name", "description", "category"} : Substring(Lower(t), Lower(MetaText(md, key)))

\* md has every key of filters, with the filter's value or one of its list.
SatisfiesFilters(md, filters) ==
    \A f \in filters :
        /\ f[1] \in DOMAIN md
        /\ IF "in" \in DOMAIN f[2] THEN md[f[1]] \in f[2].in ELSE md[f[1]] = f[2].eq

\* result is a subsequence of candidates.
RECURSIVE IsSubsequence(_, _)
IsSubsequence(result, candidates) ==
    IF result = <<>> THEN TRUE
    ELSE IF candidates = <<>> THEN FALSE
    ELSE IF result[1] = candidates[1] THEN IsSubsequence(Tail(result), Tail(candidates))
    ELSE IsSubsequence(result, Tail(candidates))

\* C23: every result of hybrid_search satisfies the filters given: the text
\* filter is in its name, description or category, and for every key of the
\* metadata filters its metadata has the filter's value (or one of the list);
\* the results are at most k, in order from the 2k candidates of the vector
\* search, and none matching is [] and no error.
C23_HybridResultsSatisfyFilters ==
    HybridReturned =>
        /\ Len(vs_call.result) <= vs_call.k
        /\ Len(vs_call.candidates) <= 2 * vs_call.k
        /\ IsSubsequence(vs_call.result, vs_call.candidates)
        /\ \A a \in 1..Len(vs_call.result) :
              LET md == MetaDict(vs_call.result[a].metadata)
              IN  /\ vs_call.text_query # <<>> => InSomeField(vs_call.text_query, md)
                  /\ SatisfiesFilters(md, vs_call.filters)

\* What holds of hybrid_search: at most k results, in order from the 2k
\* candidates; each holds the text filter in its joined text and agrees with
\* the metadata filters on the keys its metadata has.
HybridResultsMatchWhereKeyed ==
    HybridReturned =>
        /\ Len(vs_call.result) <= vs_call.k
        /\ Len(vs_call.candidates) <= 2 * vs_call.k
        /\ IsSubsequence(vs_call.result, vs_call.candidates)
        /\ \A a \in 1..Len(vs_call.result) :
              LET md == MetaDict(vs_call.result[a].metadata)
              IN  /\ vs_call.text_query # <<>> =>
                        Substring(Lower(vs_call.text_query), ItemText(md))
                  /\ \A f \in vs_call.filters :
                        f[1] \in DOMAIN md =>
                            IF "in" \in DOMAIN f[2] THEN md[f[1]] \in f[2].in
                            ELSE md[f[1]] = f[2].eq

\* The metadata filters alone.
HybridResultsHaveFilterValues ==
    HybridReturned =>
        \A a \in 1..Len(vs_call.result) :
            SatisfiesFilters(MetaDict(vs_call.result[a].metadata), vs_call.filters)

\* The text filter alone.
HybridResultsHoldText ==
    (HybridReturned /\ vs_call.text_query # <<>>) =>
        \A a \in 1..Len(vs_call.result) :
            InSomeField(vs_call.text_query, MetaDict(vs_call.result[a].metadata))

\* A hybrid_search whose filters no candidate matches returns [].
HybridNoMatchIsEmpty ==
    (HybridReturned /\ vs_call.text_query = <<"z">>) => vs_call.result = <<>>

\* recommend_for_user_profile has been called.
ProfileCalled == cb_call.op = "recommend_for_user_profile"

\* The ranking of a call that returned: at most n entries, in non-increasing
\* similarity.
ProfileRankingBounded ==
    (ProfileCalled /\ cb_call.status = "ok") =>
        /\ Len(cb_call.result) <= cb_call.n
        /\ \A a, b \in 1..Len(cb_call.result) : a < b =>
              CosLeq(cb_call.result[b].similarity, cb_call.result[a].similarity)

\* C24: the profile document is built from the preferred categories, the
\* dietary flags, the price preference and the recently liked item ids, so a
\* profile that differs from the call's in its liked ids alone has another
\* document; and the ranking has at most n entries in non-increasing
\* similarity.
C24_ProfileDocumentUsesLikedItems ==
    /\ (ProfileCalled /\ cb_fitted /\ cb_call.status = "ok") =>
          \A other \in CBProfiles :
              (/\ other # cb_call.profile
               /\ [other EXCEPT !.preferred_items = cb_call.profile.preferred_items] = cb_call.profile
               /\ Range(other.preferred_items) \cup Range(cb_call.profile.preferred_items)
                      \subseteq Range(cb_item_ids.some))
              => CreateProfileText(other) # cb_call.document
    /\ ProfileRankingBounded

\* What the document is made of: the categories, the dietary flag and the
\* price preference decide it, the liked items do not.
ProfileDocumentOfThreeParts ==
    ProfileCalled =>
        \A other \in CBProfiles :
            (CreateProfileText(other) = cb_call.document)
            <=> [other EXCEPT !.preferred_items = cb_call.profile.preferred_items] = cb_call.profile

\* A step that is a call of load returning False.
LoadFailsStep == vs_call = NoCall /\ vs_call'.op = "load" /\ vs_call'.result = FALSE

\* C25: a load that returns False leaves the store as it was: dimension,
\* item_ids, item_vectors, item_metadata, is_trained and the index.
C25_FailedLoadLeavesStore == [][LoadFailsStep => UNCHANGED vsStore]_vars

\* What holds of a failed load: the index is the one the store had, and with
\* a side-table file that cannot be read nothing of the store changes.
FailedLoadKeepsIndex ==
    [][LoadFailsStep => /\ UNCHANGED vs_index
                        /\ ~Readable(fs_pkl) => UNCHANGED vsStore]_vars

\* The rows of the index; none before an index is made.
IndexRows == IF vs_index = None THEN <<>> ELSE vs_index.some.xb

\* C26: the id list, the stored vector table and the index have the same
\* number of entries, and row i of the index is the vector of item_ids[i].
C26_IdsVectorsIndexAligned ==
    /\ Len(vs_item_ids) = Len(vs_item_vectors)
    /\ Len(vs_item_ids) = Len(IndexRows)
    /\ \A i \in 1..Len(vs_item_ids) : IndexRows[i] = vs_item_vectors[i]

\* What holds: add_items, given as many ids as vectors, keeps an aligned store
\* aligned.
AddItemsKeepsAligned ==
    [][(/\ vs_call = NoCall
        /\ vs_call'.op \in {"add_items", "build_from_dataframe"}
        /\ C26_IdsVectorsIndexAligned) => C26_IdsVectorsIndexAligned']_vars

(***************************************************************************)
(* Properties of OrderService, checked under SpecOrders.                   *)
(***************************************************************************)
RECURSIVE QuantityOf(_, _, _)
\* The total quantity of an item over the lines from i on.
QuantityOf(lines, item_id, i) ==
    IF i > Len(lines) THEN 0
    ELSE (IF lines[i].item_id = item_id THEN lines[i].quantity ELSE 0)
         + QuantityOf(lines, item_id, i + 1)

RECURSIVE HeldFrom(_, _)
\* The quantity of an item held by the orders from o on that are not
\* cancelled.
HeldFrom(item_id, o) ==
    IF o > Len(os_orders) THEN 0
    ELSE (IF os_orders[o].status # "cancelled"
          THEN QuantityOf(os_orders[o].items, item_id, 1) ELSE 0)
         + HeldFrom(item_id, o + 1)

OrderCancelledByCustomer ==
    /\ os_last.op = "cancel_order" /\ os_last.result
    /\ os_orders[os_last.order].status = "cancelled"

\* With one request at a time and no update_order_status, stock is conserved:
\* a create subtracts what the order holds and a cancel adds back the same.
StockConservedSequentialNoUpdate ==
    \A i \in OSItems : os_stock[i] + HeldFrom(i, 1) = InitialStock

\* A step of update_order_status changes no stock.
UpdateStatusStep ==
    /\ os_last'.op = "update_order_status"
    /\ os_last' # os_last \/ os_orders' # os_orders
UpdateStatusKeepsStock == [][UpdateStatusStep => UNCHANGED os_stock]_vars

\* A create_order raises in this step.
CreateRaisesStep ==
    /\ os_last' # os_last
    /\ os_last'.op = "create_order"
    /\ os_last'.raised # ""

RaisingCreateWritesNothing ==
    [][CreateRaisesStep => UNCHANGED <<os_stock, os_orders, os_cart>>]_vars

\* Some create_order has raised for lack of stock.
CreateRaisedInsufficient ==
    os_last.op = "create_order" /\ os_last.raised = "Insufficient stock"

\* An order of one line is never accepted beyond the stock its check saw:
\* with one request at a time, an order whose lines name each item once
\* leaves no stock negative.
OneLinePerItem(lines) ==
    \A i, j \in 1..Len(lines) : lines[i].item_id = lines[j].item_id => i = j
SequentialSingleLinesNotOversold ==
    (\A o \in 1..Len(os_orders) : OneLinePerItem(os_orders[o].items))
        => \A i \in OSItems : os_stock[i] >= 0

(***************************************************************************)
(* Properties of the access keys, checked under SpecKeys.                  *)
(***************************************************************************)
\* A vendor registration commits in this step.
RegistrationSucceedsStep == ak_businesses' = ak_businesses + 1

\* The key as the database has it can still be used: it is active, not
\* expired, and below its limit.
KeyUsable ==
    /\ ak_key.is_active
    /\ ~IsExpired(ak_key, ak_now)
    /\ ak_key.used_count < ak_key.max_businesses

SequentialCountWithinLimit == ak_key.used_count <= ak_key.max_businesses

\* With one request at a time no registration succeeds with a key that is
\* inactive or at its limit.
SequentialRegistrationNeedsActiveKeyBelowLimit ==
    [][RegistrationSucceedsStep =>
          ak_key.is_active /\ ak_key.used_count < ak_key.max_businesses]_vars

\* With one request at a time the count is the number of businesses
\* registered plus the uses counted by use_access_key, so no more businesses
\* are registered than the count says.
SequentialBusinessesWithinCount == ak_businesses <= ak_key.used_count

\* A registration has been refused at the limit.
RegistrationRefusedAtLimit ==
    ak_last.op = "register_vendor" /\ ak_last.raised = "Access key usage limit reached"

\* A registration has succeeded with an expired key.
RegisteredWithExpiredKey ==
    /\ ak_last.op = "register_vendor" /\ ak_last.raised = ""
    /\ IsExpired(ak_key, ak_now)

(***************************************************************************)
(* Properties of the websocket registries, checked under SpecSockets.      *)
(***************************************************************************)
\* The ids that have an open socket.
OpenIds == {IdOf(w) : w \in {x \in WSSockets : ws_socket[x] = "open"}}

\* The ids with an entry in active_connections.
ActiveIds == {d \in WSIds : active_connections[d] # None}

\* The sets of order_connections.
OrderSets == {order_connections[i].connections : i \in 1..Len(order_connections)}

\* A call of disconnect ends in this step.
DisconnectStep == ws_last'.op = "disconnect" /\ ws_socket' # ws_socket

\* C30: the registries stay consistent with the open sockets:
\* active_connections has an entry for exactly the ids with an open socket,
\* and when disconnect(id) has ended the id has no stored location, is in no
\* set of order_connections, and order_connections holds no empty set.
C30_RegistriesMatchSockets ==
    /\ [](ActiveIds = OpenIds)
    /\ [][DisconnectStep =>
            /\ ws_last'.id \notin delivery_locations'
            /\ \A i \in 1..Len(order_connections') :
                  /\ ws_last'.id \notin order_connections'[i].connections
                  /\ order_connections'[i].connections # {}]_vars

\* Every entry of active_connections holds a socket that is open, under the
\* id it was opened for.
ActiveEntriesAreOpen ==
    \A d \in WSIds :
        active_connections[d] # None =>
            /\ ws_socket[active_connections[d].some] = "open"
            /\ IdOf(active_connections[d].some) = d

\* order_connections never holds an empty set, and holds each order once.
NoEmptyOrderSet ==
    /\ {} \notin OrderSets
    /\ Cardinality(OrderKeys(order_connections)) = Len(order_connections)

\* When disconnect(id) has ended the id has no entry and no stored location.
DisconnectClearsEntryAndLocation ==
    [][DisconnectStep =>
          /\ active_connections'[ws_last'.id] = None
          /\ ws_last'.id \notin delivery_locations']_vars

\* A disconnect that does not raise leaves the id in no set of
\* order_connections.
QuietDisconnectClearsOrders ==
    [][(DisconnectStep /\ ws_last'.raised = "") =>
          \A i \in 1..Len(order_connections') :
              ws_last'.id \notin order_connections'[i].connections]_vars

\* The first socket of an id closes while its second socket is open.
FirstSocketClosedSecondOpen ==
    /\ ws_socket[<<"d1", 1>>] = "closed" /\ ws_socket[<<"d1", 2>>] = "open"
    /\ ws_last.op = "disconnect"

====
